---- MODULE Spec2Model ----
(***************************************************************************)
(* Model of digital-pm-mcp's NotebookLM automation driver                  *)
(* (browser-source.js: openPersistentContext, withNotebookPage,            *)
(* createNotebook, addTextSource, addUrlSources, queryNotebook), of the    *)
(* query tool's retry loop (tools/query.js: handleQuery) and of the tool   *)
(* handlers that add sources (tools/init.js, sync.js, research.js).        *)
(*                                                                         *)
(* One call of an exported function is one run of the state machine: `pc`  *)
(* is the await the call is suspended at, every action is one awaited step *)
(* of the code together with the synchronous statements that follow it.    *)
(* Strings are TLA+ strings; the characters the source writes outside      *)
(* ASCII (dashes, emoji) and its backticks are left out of the literals.   *)
(***************************************************************************)
EXTENDS Integers, Sequences, FiniteSets, TLC

VARIABLES
  op,            \* exported function being executed, "none" before the call
  urls,          \* addUrlSources' `urls` argument
  label,         \* addTextSource's `label` argument
  content,       \* addTextSource's `content` argument
  pc,            \* the await the call is suspended at
  context,       \* BrowserContext: "none" | "open" | "closed"
  userDataDir,   \* directory the context was launched on: "none" | BaseProfile | a clone
  tempDir,       \* openPersistentContext's tempDir (NoDir = null)
  instanceDirs,  \* directories that exist under chrome_profile_instances
  thrown,        \* exception in flight or thrown by the call, "none" if none
  retval,        \* value of the try block's return statement ("none" if it has not returned)
  outcome,       \* "running" | "returned" | "threw"
  trace,         \* page-level steps performed so far, in order
  closeCalls,    \* number of context.close() calls made
  launchErr,     \* message of the error the first launch's catch block caught, "none" if none
  launches,      \* directories launchPersistentContext was called on, in order
  baseFiles,     \* paths that exist inside the base profile directory
  cloneFiles,    \* paths that exist inside tempDir
  stderr,        \* lines written to process.stderr
  pageUrl,       \* createNotebook: last value read from page.url() ("null" before the first read)
  urlPolls,      \* createNotebook: iterations of the URL poll loop so far
  notebookUrl,   \* createNotebook: local `notebookUrl` ("null" until a real URL is seen)
  polls,         \* queryNotebook: texts read from the answer region so far
  stableCount,   \* queryNotebook: StabilizationState match counter
  lastText,      \* queryNotebook: text of the previous poll
  hq,            \* handleQuery: position in the retry loop
  attempt,       \* handleQuery: loop variable `attempt`
  lastErr,       \* handleQuery: message of the last caught error
  calls,         \* handleQuery: messages thrown by the callNotebookLM calls made, "" for a success
  sleeps,        \* handleQuery: delays slept so far, in ms
  response,      \* handleQuery: the returned tool result (kind "none" while running)
  held,          \* browser contexts launched on which close() has not been called yet
  sources,       \* the notebook's sources panel: the sources inserted so far, in order
  tool,          \* tool handler being executed, "none" if none
  plan,          \* the handler's remaining source additions, in program order
  results,       \* URLs of the search results searchTopics returns, "" for a result without url
  additions,     \* source additions the handlers have started so far
  clock,         \* Date.now()
  rpc,           \* callNotebookLM: position in the exchange with the subprocess
  child,         \* the notebooklm-mcp subprocess: "none", "running", "killed"
  sent,          \* messages written to the child's stdin, in order
  received,      \* lines of the child's stdout the awaited reads resolved with
  tavilyKey,     \* whether TAVILY_API_KEY is set in the environment
  topics,        \* searchTopics' `topics` argument
  all,           \* searchTopics: the entries pushed so far
  search,        \* searchTopics: "idle", "loop", "returned", "threw"
  searchErr,     \* message of the error searchTopics rejected with
  acqPid,        \* overlapping acquisitions: process.pid of each
  acqPc,         \* overlapping acquisitions: position of each
  acqDir,        \* overlapping acquisitions: tempDir of each
  projectConfig, \* notebook_url of the project's .digitalpM.json, "null" without one
  passed         \* handleInit's `notebook_url` argument, "null" if not passed

driverVars == <<op, urls, label, content, held, pc, context, userDataDir, tempDir, instanceDirs, thrown,
                retval, outcome, trace, closeCalls, launchErr, launches, baseFiles, cloneFiles,
                stderr, pageUrl, urlPolls, notebookUrl, polls, stableCount, lastText>>
hqVars     == <<hq, attempt, lastErr, calls, sleeps, response>>
cfgVars    == <<projectConfig, passed>>
handlerVars == <<tool, plan, results, additions, clock, cfgVars>>
rpcVars    == <<rpc, child, sent, received>>
searchVars == <<tavilyKey, topics, all, search, searchErr>>
acqVars    == <<acqPid, acqPc, acqDir>>
svcVars    == <<rpcVars, searchVars, acqVars>>
outerVars  == <<hqVars, handlerVars, sources, svcVars>>
vars       == <<driverVars, outerVars>>

----------------------------------------------------------------------------
(* String helpers: String.prototype.includes / toLowerCase / split('?')[0] *)

UpperAlpha == "ABCDEFGHIJKLMNOPQRSTUVWXYZ"
LowerAlpha == "abcdefghijklmnopqrstuvwxyz"

LowerChar(c) ==
  IF \E i \in 1..26 : SubSeq(UpperAlpha, i, i) = c
  THEN LET i == CHOOSE j \in 1..26 : SubSeq(UpperAlpha, j, j) = c
       IN  SubSeq(LowerAlpha, i, i)
  ELSE c

RECURSIVE toLowerCase(_)
toLowerCase(s) ==
  IF s = "" THEN "" ELSE LowerChar(SubSeq(s, 1, 1)) \o toLowerCase(SubSeq(s, 2, Len(s)))

includes(s, sub) ==
  \E i \in 0..(Len(s) - Len(sub)) : SubSeq(s, i + 1, i + Len(sub)) = sub

\* url.split('?')[0]
SplitQuery(url) ==
  IF includes(url, "?")
  THEN LET i == CHOOSE j \in 1..Len(url) :
                  /\ SubSeq(url, j, j) = "?"
                  /\ \A k \in 1..(j - 1) : SubSeq(url, k, k) # "?"
       IN  SubSeq(url, 1, i - 1)
  ELSE url

RECURSIVE join(_, _)
join(lines, sep) ==
  IF lines = <<>> THEN ""
  ELSE IF Len(lines) = 1 THEN lines[1]
  ELSE lines[1] \o sep \o join(Tail(lines), sep)

----------------------------------------------------------------------------
(* Session acquisition: openPersistentContext                              *)

BaseProfile == "notebooklm-mcp/chrome_profile"
NoDir       == "null"

getDigitalPMInstancesDir == "digital-pm-mcp/chrome_profile_instances"

\* Mutant: the second launch is pointed at the base profile again.
InstancePathIsBase(pid, now) == BaseProfile

\* path.join(instancesDir, `instance-${process.pid}-${Date.now()}`)
InstancePath(pid, now) ==
  getDigitalPMInstancesDir \o "/instance-" \o ToString(pid) \o "-" \o ToString(now)

ProcessPid == 4711
InstanceDir == InstancePath(ProcessPid, 1)

\* Position of the last "/" of a path, 0 if it has none.
LastSlash(p) ==
  IF includes(p, "/")
  THEN CHOOSE j \in 1..Len(p) :
         /\ SubSeq(p, j, j) = "/"
         /\ \A k \in (j + 1)..Len(p) : SubSeq(p, k, k) # "/"
  ELSE 0

\* path.basename(src)
basename(p) == SubSeq(p, LastSlash(p) + 1, Len(p))

\* String.prototype.endsWith
endsWith(s, suffix) ==
  Len(s) >= Len(suffix) /\ SubSeq(s, Len(s) - Len(suffix) + 1, Len(s)) = suffix

\* /^Singleton/i.test(bn)
startsWithSingleton(bn) == Len(bn) >= 9 /\ toLowerCase(SubSeq(bn, 1, 9)) = "singleton"

\* Mutant: the filter forgets the temporary files.
filterWithoutTmp(src) ==
  LET bn == basename(src)
  IN  ~startsWithSingleton(bn) /\ ~endsWith(bn, ".lock")

\* filter: (src) => !/^Singleton/i.test(bn) && !bn.endsWith('.lock') && !bn.endsWith('.tmp')
filter(src) ==
  LET bn == basename(src)
  IN  ~startsWithSingleton(bn) /\ ~endsWith(bn, ".lock") /\ ~endsWith(bn, ".tmp")

\* The directories a path lies in (relative to the profile directory).
Parents(p) == {SubSeq(p, 1, j - 1) : j \in {k \in 1..Len(p) : SubSeq(p, k, k) = "/"}}

\* What a recursive fs.cp with this filter copies: the source directory itself
\* must pass the filter, and an entry is reached only through directories
\* that passed it.
Copyable(files) ==
  IF filter(BaseProfile)
  THEN {f \in files : filter(f) /\ \A d \in Parents(f) : filter(d)}
  ELSE {}

\* Order in which a recursive copy visits the entries of a profile.
Listing ==
  << "Cache.tmp", "Cache.tmp/index", "Default", "Default/Cookies", "Default/Cookies.lock",
     "Default/LOCK", "Default/Prefs.tmp", "Local State", "SingletonCookie", "SingletonLock",
     "singletonsocket" >>

\* Contents the profile directory of notebooklm-mcp can have when a call starts.
Profiles ==
  { {"Local State", "Default", "Default/Cookies"},
    {"Local State", "Default", "Default/Cookies", "SingletonLock", "SingletonCookie"},
    {"Default", "Default/Cookies", "Default/Cookies.lock", "Default/Prefs.tmp", "singletonsocket"},
    {"Local State", "Cache.tmp", "Cache.tmp/index", "Default", "Default/LOCK"} }

\* The lock Chromium holds in its user data directory while it runs on it.
BrowserLock == "SingletonLock"

\* A write into `dir`: the directory's contents become `files`.
WriteDir(dir, files) ==
  IF dir = BaseProfile
  THEN baseFiles' = files /\ UNCHANGED cloneFiles
  ELSE cloneFiles' = files /\ UNCHANGED baseFiles

FilesOf(dir) == IF dir = BaseProfile THEN baseFiles ELSE cloneFiles

MaxUrls     == 2
Urls        == {"https://a.example/", "https://b.example/doc"}
\* The `urls` argument: null/undefined, or an array of URLs.
NullUrls    == [isNull |-> TRUE, list |-> <<>>]
UrlLists    == {NullUrls} \cup
               {[isNull |-> FALSE, list |-> l] : l \in UNION {[1..n -> Urls] : n \in 0..MaxUrls}}

\* The locals of a call that has not started.
NoCall ==
  /\ op = "none" /\ urls = NullUrls /\ label = "" /\ content = "" /\ pc = "idle"
  /\ context = "none" /\ userDataDir = "none" /\ tempDir = NoDir
  /\ launchErr = "none" /\ launches = <<>>
  /\ cloneFiles = {}
  /\ stderr = <<>> /\ pageUrl = "null"
  /\ thrown = "none" /\ retval = "none" /\ outcome = "running"
  /\ trace = <<>> /\ closeCalls = 0 /\ urlPolls = 0 /\ notebookUrl = "null"
  /\ polls = <<>> /\ stableCount = 0 /\ lastText = "null"

\* The process before any call: no context, no clone directory, an empty
\* notebook, no handler running.
Fresh ==
  /\ NoCall
  /\ instanceDirs = {} /\ held = 0 /\ sources = <<>>
  /\ hq = "idle" /\ attempt = 0 /\ lastErr = "null"
  /\ calls = <<>> /\ sleeps = <<>> /\ response = [kind |-> "none", text |-> ""]
  /\ tool = "none" /\ plan = <<>> /\ additions = 0 /\ clock = 1
  /\ rpc = "idle" /\ child = "none" /\ sent = <<>> /\ received = <<>>
  /\ all = <<>> /\ search = "idle" /\ searchErr = ""
  /\ passed = "null"

\* The environment of the handlers that do not search.
NoSearch == tavilyKey = TRUE /\ topics = <<>>

\* Two calls that may overlap; none has been made.
Acquirers == {1, 2}
NoClones ==
  /\ acqPid = [a \in Acquirers |-> ProcessPid]
  /\ acqPc = [a \in Acquirers |-> "idle"]
  /\ acqDir = [a \in Acquirers |-> NoDir]

Init ==
  /\ Fresh
  /\ NoSearch /\ NoClones
  /\ projectConfig = "null"
  /\ baseFiles \in Profiles
  /\ results = <<>>

\* An exception raised before the try block is entered leaves the call at once.
Escape(err) ==
  /\ thrown' = err
  /\ outcome' = "threw"
  /\ pc' = "done"

\* Mutant: no finally block, the exception leaves the call at once.
ThrowWithoutFinally(err) ==
  /\ thrown' = err
  /\ pc' = "done"

\* An exception raised inside try { ... } finally { ... }: control passes to
\* the finally block with the exception pending.
Throw(err) ==
  /\ thrown' = err
  /\ pc' = "close"

\* `return value` inside the try block: the finally block runs first.
Return(value) ==
  /\ retval' = value
  /\ pc' = "close"

Log(step) == trace' = Append(trace, step)

callVars  == <<op, urls, label, content>>
fsVars    == <<baseFiles, cloneFiles>>
sessVars  == <<held, context, userDataDir, tempDir, instanceDirs, closeCalls, launchErr, launches,
               fsVars, stderr>>
pollVars  == <<pageUrl, urlPolls, notebookUrl, polls, stableCount, lastText>>

\* Messages launchPersistentContext rejects with. The first three are
\* Chromium's profile-lock failures, the others are unrelated launch failures.
LaunchErrors ==
  { "Failed to create a ProcessSingleton for your profile directory",
    "Failed to create notebooklm-mcp/chrome_profile/SingletonLock: File exists (17)",
    "The profile is already in use by another Chromium process",
    "Executable doesn't exist at chromium/chrome",
    "Target page, context or browser has been closed" }

\* Mutant: the third alternative of the pattern is missing.
isSingletonLockOnly(message) ==
  LET m == toLowerCase(message)
  IN  \/ includes(m, "processsingleton")
      \/ includes(m, "singletonlock")

\* Mutant: every launch failure is taken for a locked profile.
isSingletonAnyFailure(message) == TRUE

\* /ProcessSingleton|SingletonLock|profile is already in use/i.test(message)
isSingleton(message) ==
  LET m == toLowerCase(message)
  IN  \/ includes(m, "processsingleton")
      \/ includes(m, "singletonlock")
      \/ includes(m, "profile is already in use")

\* Labels and texts addTextSource is called with.
Labels ==
  { "Codebase Architecture Summary", "Market & Competitive Research", "Research Summary",
    "ROADMAP.md", "README.md" }
Contents == {"", "Lorem ipsum"}

\* Entry of the exported functions: the statements before the first await.
createNotebookCall ==
  /\ op' = "createNotebook"
  /\ pc' = "getPatchright"
  /\ UNCHANGED <<urls, label, content, retval, outcome>>

addTextSourceCall(l, c) ==
  /\ op' = "addTextSource"
  /\ label' = l /\ content' = c
  /\ pc' = "getPatchright"
  /\ UNCHANGED <<urls, retval, outcome>>

\* Mutant: the list is not looked at before the notebook is opened.
addUrlSourcesUnguarded(u) ==
  /\ op' = "addUrlSources"
  /\ urls' = u
  /\ pc' = "getPatchright"
  /\ UNCHANGED <<label, content, retval, outcome>>

\* if (!urls || urls.length === 0) return;
addUrlSourcesCall(u) ==
  /\ op' = "addUrlSources"
  /\ urls' = u
  /\ IF u.isNull \/ Len(u.list) = 0
     THEN /\ pc' = "done"
          /\ outcome' = "returned"
          /\ retval' = "undefined"
     ELSE /\ pc' = "getPatchright"
          /\ UNCHANGED <<outcome, retval>>
  /\ UNCHANGED <<label, content>>

queryNotebookCall ==
  /\ op' = "queryNotebook"
  /\ pc' = "getPatchright"
  /\ UNCHANGED <<urls, label, content, retval, outcome>>

\* A call made on its own.
createNotebook ==
  /\ pc = "idle"
  /\ createNotebookCall
  /\ UNCHANGED <<sessVars, thrown, trace, pollVars, outerVars>>

addTextSource ==
  /\ pc = "idle"
  /\ \E l \in Labels, c \in Contents : addTextSourceCall(l, c)
  /\ UNCHANGED <<sessVars, thrown, trace, pollVars, outerVars>>

addUrlSources ==
  /\ pc = "idle"
  /\ \E u \in UrlLists : addUrlSourcesCall(u)
  /\ UNCHANGED <<sessVars, thrown, trace, pollVars, outerVars>>

queryNotebook ==
  /\ pc = "idle"
  /\ queryNotebookCall
  /\ UNCHANGED <<sessVars, thrown, trace, pollVars, outerVars>>

\* const patchright = await getPatchright();
getPatchright ==
  /\ pc = "getPatchright"
  /\ \E found \in BOOLEAN :
       IF found
       THEN pc' = "launchBase" /\ UNCHANGED <<thrown, outcome>>
       ELSE Escape("patchright not found")
  /\ UNCHANGED <<callVars, sessVars, retval, trace, pollVars, outerVars>>

CloningNotice == "[digital-pm-mcp] Chrome profile in use, cloning to isolated instance...\n"

\* First attempt: launchPersistentContext(baseProfile); a failure of the
\* singleton class falls through to the clone, any other is rethrown.
launchBaseProfile ==
  /\ pc = "launchBase"
  /\ \E res \in {"ok"} \cup LaunchErrors :
       CASE res = "ok" ->
              /\ context' = "open" /\ held' = held + 1
              /\ userDataDir' = BaseProfile
              /\ WriteDir(BaseProfile, baseFiles \cup {BrowserLock})
              /\ pc' = "newPage"
              /\ UNCHANGED <<thrown, outcome, launchErr, stderr>>
         [] res # "ok" /\ isSingleton(res) ->
              /\ launchErr' = res
              /\ stderr' = Append(stderr, CloningNotice)
              /\ pc' = "mkdir"
              /\ UNCHANGED <<held, context, userDataDir, thrown, outcome, fsVars>>
         [] OTHER ->
              /\ launchErr' = res
              /\ Escape(res)
              /\ UNCHANGED <<held, context, userDataDir, fsVars, stderr>>
  /\ launches' = Append(launches, BaseProfile)
  /\ UNCHANGED <<callVars, tempDir, instanceDirs, closeCalls, retval, trace, pollVars, outerVars>>

\* await fs.mkdir(tempDir, { recursive: true });
mkdirTempDir ==
  /\ pc = "mkdir"
  /\ \E ok \in BOOLEAN :
       IF ok
       THEN /\ tempDir' = InstancePath(ProcessPid, clock)
            /\ instanceDirs' = instanceDirs \cup {InstancePath(ProcessPid, clock)}
            /\ pc' = "cp"
            /\ UNCHANGED <<thrown, outcome>>
       ELSE /\ Escape("EACCES: permission denied, mkdir")
            /\ UNCHANGED <<tempDir, instanceDirs>>
  /\ UNCHANGED <<callVars, held, context, userDataDir, closeCalls, launchErr, launches, fsVars,
                 stderr, retval, trace, pollVars, outerVars>>

CloneWarning(message) == "[digital-pm-mcp] Profile clone warning: " \o message \o "\n"

CopyError == "ENOSPC: no space left on device, write"

\* The entries a copy has written when it fails at the j-th entry of the listing.
CopiedBefore(files, j) == Copyable(files) \cap {Listing[i] : i \in 1..(j - 1)}

\* Mutant: a failed copy is fatal.
cloneProfileFatal ==
  /\ pc = "cp"
  /\ \E j \in 0..Len(Listing) :
       IF j = 0
       THEN /\ WriteDir(tempDir, cloneFiles \cup Copyable(baseFiles))
            /\ pc' = "launchClone"
            /\ UNCHANGED <<thrown, outcome, stderr>>
       ELSE /\ Listing[j] \in Copyable(baseFiles)
            /\ WriteDir(tempDir, cloneFiles \cup CopiedBefore(baseFiles, j))
            /\ Escape(CopyError)
            /\ UNCHANGED stderr
  /\ UNCHANGED <<callVars, held, context, userDataDir, tempDir, instanceDirs, closeCalls, launchErr,
                 launches, retval, trace, pollVars, outerVars>>

\* try { await fs.cp(baseProfile, tempDir, { filter }) } catch (cpErr) { warning }
\* j = 0: the copy completes; j > 0: it fails at the j-th entry of the listing.
cloneProfile ==
  /\ pc = "cp"
  /\ \E j \in 0..Len(Listing) :
       IF j = 0
       THEN /\ WriteDir(tempDir, cloneFiles \cup Copyable(baseFiles))
            /\ UNCHANGED stderr
       ELSE /\ Listing[j] \in Copyable(baseFiles)
            /\ WriteDir(tempDir, cloneFiles \cup CopiedBefore(baseFiles, j))
            /\ stderr' = Append(stderr, CloneWarning(CopyError))
  /\ pc' = "launchClone"
  /\ UNCHANGED <<callVars, held, context, userDataDir, tempDir, instanceDirs, closeCalls, launchErr,
                 launches, thrown, retval, outcome, trace, pollVars, outerVars>>

\* Mutant: the second launch runs on the base profile.
launchCloneOnBase ==
  /\ pc = "launchClone"
  /\ \E res \in {"ok"} \cup LaunchErrors :
       IF res = "ok"
       THEN /\ context' = "open" /\ held' = held + 1
            /\ userDataDir' = BaseProfile
            /\ WriteDir(BaseProfile, baseFiles \cup {BrowserLock})
            /\ pc' = "newPage"
            /\ UNCHANGED <<thrown, outcome>>
       ELSE /\ Escape(res)
            /\ UNCHANGED <<held, context, userDataDir, fsVars>>
  /\ launches' = Append(launches, BaseProfile)
  /\ UNCHANGED <<callVars, tempDir, instanceDirs, closeCalls, launchErr, stderr, retval, trace,
                 pollVars, outerVars>>

\* const context = await launchPersistentContext(tempDir, launchOptions);
launchClone ==
  /\ pc = "launchClone"
  /\ \E res \in {"ok"} \cup LaunchErrors :
       IF res = "ok"
       THEN /\ context' = "open" /\ held' = held + 1
            /\ userDataDir' = tempDir
            /\ WriteDir(tempDir, FilesOf(tempDir) \cup {BrowserLock})
            /\ pc' = "newPage"
            /\ UNCHANGED <<thrown, outcome>>
       ELSE /\ Escape(res)
            /\ UNCHANGED <<held, context, userDataDir, fsVars>>
  /\ launches' = Append(launches, tempDir)
  /\ UNCHANGED <<callVars, tempDir, instanceDirs, closeCalls, launchErr, stderr, retval, trace,
                 pollVars, outerVars>>

----------------------------------------------------------------------------
(* withNotebookPage: navigation, readiness, settle, then the embedded fn   *)

TimeoutError(what) == "TimeoutError: Timeout 30000ms exceeded waiting for " \o what

\* const page = await context.newPage();   (first statement of both try blocks)
newPage ==
  /\ pc = "newPage"
  /\ \E ok \in BOOLEAN :
       IF ok
       THEN /\ pc' = IF op = "createNotebook" THEN "gotoHome" ELSE "goto"
            /\ UNCHANGED thrown
       ELSE Throw("browserContext.newPage: Target closed")
  /\ UNCHANGED <<callVars, sessVars, retval, outcome, trace, pollVars, outerVars>>

\* await page.goto(notebookUrl, { waitUntil: 'domcontentloaded', timeout: TIMEOUT });
gotoNotebook ==
  /\ pc = "goto"
  /\ \E ok \in BOOLEAN :
       IF ok
       THEN pc' = "waitQueryBox" /\ Log("goto") /\ UNCHANGED thrown
       ELSE Throw(TimeoutError("navigation")) /\ UNCHANGED trace
  /\ UNCHANGED <<callVars, sessVars, retval, outcome, pollVars, outerVars>>

\* Mutant: a readiness marker that never appears is tolerated.
waitForQueryBoxTolerant ==
  /\ pc = "waitQueryBox"
  /\ \E ok \in BOOLEAN :
       /\ pc' = "settle"
       /\ IF ok THEN Log("ready") ELSE UNCHANGED trace
  /\ UNCHANGED <<callVars, sessVars, thrown, retval, outcome, pollVars, outerVars>>

\* await page.waitForSelector('textarea.query-box-input', { state: 'visible' });
waitForQueryBox ==
  /\ pc = "waitQueryBox"
  /\ \E ok \in BOOLEAN :
       IF ok
       THEN pc' = "settle" /\ Log("ready") /\ UNCHANGED thrown
       ELSE Throw(TimeoutError("textarea.query-box-input")) /\ UNCHANGED trace
  /\ UNCHANGED <<callVars, sessVars, retval, outcome, pollVars, outerVars>>

\* await page.waitForTimeout(1500);  then  return await fn(page);
settleAnimations ==
  /\ pc = "settle"
  /\ pc' = IF op = "queryNotebook" THEN "typeQuestion" ELSE "evalBackdrop"
  /\ Log("settle1500")
  /\ UNCHANGED <<callVars, sessVars, thrown, retval, outcome, pollVars, outerVars>>

\* Positions between `try {` and `} finally {`.
TryPcs ==
  { "newPage", "goto", "waitQueryBox", "settle",
    "evalBackdrop", "waitAddSource", "clickAddSource", "waitKindButtons", "clickKind",
    "waitPayload", "fill", "clickInsert", "waitClosed", "registerSettle",
    "gotoHome", "renderWait", "clickNew", "pollUrl", "waitNotebookReady",
    "typeQuestion", "submit", "waitThinking", "findAnswer", "poll" }

\* Any other rejection of an awaited page call (page crashed, target closed).
unexpectedException ==
  /\ pc \in TryPcs
  /\ Throw("Target page, context or browser has been closed")
  /\ UNCHANGED <<callVars, sessVars, retval, outcome, trace, pollVars, outerVars>>

----------------------------------------------------------------------------
(* finally { await context.close(); if (tempDir) try { fs.rm } catch {} }  *)

\* The call leaves the finally block: it returns the value of the try block,
\* or rethrows the pending exception.
Complete ==
  /\ pc' = "done"
  /\ outcome' = IF thrown = "none" THEN "returned" ELSE "threw"

CloseFailed == "browserContext.close: Target closed"

closeContext ==
  /\ pc = "close"
  /\ closeCalls' = closeCalls + 1
  /\ held' = held - 1
  /\ \E ok \in BOOLEAN :
       IF ok
       THEN /\ context' = "closed"
            /\ WriteDir(userDataDir, FilesOf(userDataDir) \ {BrowserLock})
            /\ IF tempDir # NoDir
               THEN pc' = "rm" /\ UNCHANGED outcome
               ELSE Complete
            /\ UNCHANGED <<thrown, retval>>
       ELSE \* close() rejects: its error replaces whatever was pending and
            \* the rest of the finally block is skipped.
            /\ thrown' = CloseFailed
            /\ outcome' = "threw"
            /\ pc' = "done"
            /\ UNCHANGED <<context, retval, fsVars>>
  /\ UNCHANGED <<callVars, userDataDir, tempDir, instanceDirs, launchErr, launches, stderr,
                 trace, pollVars, outerVars>>

\* Mutant: the finally block removes the clone first and closes afterwards.
removeTempDirBeforeClose ==
  /\ \/ pc = "rm"
     \/ pc = "close" /\ tempDir \in instanceDirs
  /\ instanceDirs' = instanceDirs \ {tempDir} /\ WriteDir(tempDir, {})
  /\ IF pc = "rm" THEN Complete ELSE UNCHANGED <<pc, outcome>>
  /\ UNCHANGED <<callVars, held, context, userDataDir, tempDir, closeCalls, launchErr, launches,
                 stderr, thrown, retval, trace, pollVars, outerVars>>

\* try { await fs.rm(tempDir, { recursive: true, force: true }); } catch {}
removeTempDir ==
  /\ pc = "rm"
  /\ \E ok \in BOOLEAN :
       IF ok
       THEN instanceDirs' = instanceDirs \ {tempDir} /\ WriteDir(tempDir, {})
       ELSE UNCHANGED <<instanceDirs, fsVars>>
  /\ Complete
  /\ UNCHANGED <<callVars, held, context, userDataDir, tempDir, closeCalls, launchErr, launches,
                 stderr, thrown, retval, trace, pollVars, outerVars>>

----------------------------------------------------------------------------
(* openAddSourcesDialog, addTextSource, addUrlSources: the embedded dialog *)

\* Mutant: both functions pick the Websites button.
KindLabelAlwaysWebsites == "Websites"

KindLabel == IF op = "addTextSource" THEN "Copied text" ELSE "Websites"

PayloadSelector ==
  IF op = "addTextSource" THEN "textarea.copied-text-input-textarea"
  ELSE ".cdk-overlay-container textarea"

\* Mutant: the result of the backdrop check is ignored, the button is always clicked.
evalBackdropIgnored ==
  /\ pc = "evalBackdrop"
  /\ \E backdropPresent \in BOOLEAN :
       /\ pc' = "waitAddSource"
       /\ Log(IF backdropPresent THEN "backdrop:present" ELSE "backdrop:absent")
  /\ UNCHANGED <<callVars, sessVars, thrown, retval, outcome, pollVars, outerVars>>

\* const backdropPresent = await page.evaluate(...cdk-overlay-backdrop-showing...)
evalBackdrop ==
  /\ pc = "evalBackdrop"
  /\ \E backdropPresent \in BOOLEAN :
       /\ pc' = IF backdropPresent THEN "waitKindButtons" ELSE "waitAddSource"
       /\ Log(IF backdropPresent THEN "backdrop:present" ELSE "backdrop:absent")
  /\ UNCHANGED <<callVars, sessVars, thrown, retval, outcome, pollVars, outerVars>>

\* await page.waitForSelector('button[aria-label="Add source"]', ...)
waitAddSourceButton ==
  /\ pc = "waitAddSource"
  /\ \E ok \in BOOLEAN :
       IF ok
       THEN pc' = "clickAddSource" /\ UNCHANGED thrown
       ELSE Throw(TimeoutError("button[aria-label=Add source]"))
  /\ UNCHANGED <<callVars, sessVars, retval, outcome, trace, pollVars, outerVars>>

\* await page.click('button[aria-label="Add source"]');
clickAddSource ==
  /\ pc = "clickAddSource"
  /\ \E ok \in BOOLEAN :
       IF ok
       THEN pc' = "waitKindButtons" /\ Log("click:Add source") /\ UNCHANGED thrown
       ELSE Throw(TimeoutError("click button[aria-label=Add source]")) /\ UNCHANGED trace
  /\ UNCHANGED <<callVars, sessVars, retval, outcome, pollVars, outerVars>>

\* await page.waitForSelector('.cdk-overlay-container button.drop-zone-icon-button', visible)
waitKindButtons ==
  /\ pc = "waitKindButtons"
  /\ \E ok \in BOOLEAN :
       IF ok
       THEN pc' = "clickKind" /\ Log("dialog:open") /\ UNCHANGED thrown
       ELSE Throw(TimeoutError("button.drop-zone-icon-button")) /\ UNCHANGED trace
  /\ UNCHANGED <<callVars, sessVars, retval, outcome, pollVars, outerVars>>

\* page.evaluate: find the kind button by its text and click it, or throw
clickKindButton ==
  /\ pc = "clickKind"
  /\ \E found \in BOOLEAN :
       IF found
       THEN pc' = "waitPayload" /\ Log("click:" \o KindLabel) /\ UNCHANGED thrown
       ELSE Throw(KindLabel \o " button not found") /\ UNCHANGED trace
  /\ UNCHANGED <<callVars, sessVars, retval, outcome, pollVars, outerVars>>

\* await page.waitForSelector(<payload textarea>, visible)
waitPayloadField ==
  /\ pc = "waitPayload"
  /\ \E ok \in BOOLEAN :
       IF ok
       THEN pc' = "fill" /\ UNCHANGED thrown
       ELSE Throw(TimeoutError(PayloadSelector))
  /\ UNCHANGED <<callVars, sessVars, retval, outcome, trace, pollVars, outerVars>>

\* await page.fill(<payload textarea>, sourceContent | urlBlock)
fillPayload ==
  /\ pc = "fill"
  /\ \E ok \in BOOLEAN :
       IF ok
       THEN pc' = "clickInsert" /\ Log("fill") /\ UNCHANGED thrown
       ELSE Throw(TimeoutError("fill " \o PayloadSelector)) /\ UNCHANGED trace
  /\ UNCHANGED <<callVars, sessVars, retval, outcome, pollVars, outerVars>>

\* const sourceContent = `# ${label}\n\n${content}`;
sourceContent(l, c) == "# " \o l \o "\n\n" \o c

\* const urlBlock = urls.join('\n');
urlBlock(list) == join(list, "\n")

\* What the payload field holds when Insert is clicked.
Payload ==
  IF op = "addTextSource" THEN sourceContent(label, content) ELSE urlBlock(urls.list)

\* Mutant: a source the notebook already has is not inserted again.
InsertUnlessPresent ==
  LET new == [kind |-> KindLabel, text |-> Payload]
  IN  IF \E i \in 1..Len(sources) : sources[i] = new
      THEN UNCHANGED sources
      ELSE sources' = Append(sources, new)

\* The click on Insert makes NotebookLM take the dialog's payload as a new
\* source ("source is being processed"), whatever the panel already holds.
Insert == sources' = Append(sources, [kind |-> KindLabel, text |-> Payload])

\* Mutant: the closing of the dialog is not awaited.
clickInsertThenSettle ==
  /\ pc = "clickInsert"
  /\ \E found \in BOOLEAN :
       IF found
       THEN pc' = "registerSettle" /\ Log("click:Insert") /\ Insert /\ UNCHANGED thrown
       ELSE Throw("Insert button not found") /\ UNCHANGED <<trace, sources>>
  /\ UNCHANGED <<callVars, sessVars, retval, outcome, pollVars, hqVars, handlerVars, svcVars>>

\* page.evaluate: find the button whose trimmed text is 'Insert' and click it, or throw
clickInsert ==
  /\ pc = "clickInsert"
  /\ \E found \in BOOLEAN :
       IF found
       THEN pc' = "waitClosed" /\ Log("click:Insert") /\ Insert /\ UNCHANGED thrown
       ELSE Throw("Insert button not found") /\ UNCHANGED <<trace, sources>>
  /\ UNCHANGED <<callVars, sessVars, retval, outcome, pollVars, hqVars, handlerVars, svcVars>>

\* Mutant: a dialog that does not close is tolerated.
waitDialogClosedTolerant ==
  /\ pc = "waitClosed"
  /\ \E ok \in BOOLEAN :
       /\ pc' = "registerSettle"
       /\ IF ok THEN Log("dialog:closed") ELSE UNCHANGED trace
  /\ UNCHANGED <<callVars, sessVars, thrown, retval, outcome, pollVars, outerVars>>

\* await page.waitForSelector('... button.drop-zone-icon-button', hidden)
waitDialogClosed ==
  /\ pc = "waitClosed"
  /\ \E ok \in BOOLEAN :
       IF ok
       THEN pc' = "registerSettle" /\ Log("dialog:closed") /\ UNCHANGED thrown
       ELSE Throw(TimeoutError("button.drop-zone-icon-button to be hidden")) /\ UNCHANGED trace
  /\ UNCHANGED <<callVars, sessVars, retval, outcome, pollVars, outerVars>>

\* await page.waitForTimeout(2000);  fn returns, withNotebookPage returns its value
registerSettle ==
  /\ pc = "registerSettle"
  /\ Return("undefined")
  /\ Log("settle2000")
  /\ UNCHANGED <<callVars, sessVars, thrown, outcome, pollVars, outerVars>>

----------------------------------------------------------------------------
(* createNotebook                                                          *)

MaxUrlPolls == 3

\* Values page.url() can take while the new notebook opens.
PageUrls ==
  { "https://notebooklm.google.com/",
    "https://notebooklm.google.com/notebook/creating",
    "https://notebooklm.google.com/notebook/creating?pli=1",
    "https://notebooklm.google.com/notebook/3f2a-77c1",
    "https://notebooklm.google.com/notebook/3f2a-77c1?pli=1" }

\* Mutant: the check of 0.4.1, which took the intermediate URL for the notebook's.
IsNotebookUrl(url) == includes(url, "/notebook/")

\* url.includes('/notebook/') && !url.includes('/notebook/creating')
IsRealNotebookUrl(url) ==
  includes(url, "/notebook/") /\ ~includes(url, "/notebook/creating")

\* await page.goto('https://notebooklm.google.com/', ...)
gotoHome ==
  /\ pc = "gotoHome"
  /\ \E ok \in BOOLEAN :
       IF ok
       THEN pc' = "renderWait" /\ Log("goto:home") /\ UNCHANGED thrown
       ELSE Throw(TimeoutError("navigation")) /\ UNCHANGED trace
  /\ UNCHANGED <<callVars, sessVars, retval, outcome, pollVars, outerVars>>

\* await page.waitForTimeout(3000);
renderWait ==
  /\ pc = "renderWait"
  /\ pc' = "clickNew"
  /\ Log("settle3000")
  /\ UNCHANGED <<callVars, sessVars, thrown, retval, outcome, pollVars, outerVars>>

NewNotebookNotFound ==
  "Could not find \"New notebook\" button on notebooklm.google.com. "
    \o "Make sure notebooklm-mcp is authenticated (run setup_auth first)."

CreationTimedOut == "Timed out waiting for new notebook to open"

\* Mutant: the result of the click is not checked.
clickNewNotebookUnchecked ==
  /\ pc = "clickNew"
  /\ \E clicked \in BOOLEAN :
       /\ pc' = "pollUrl"
       /\ IF clicked THEN Log("click:New notebook") ELSE UNCHANGED trace
       /\ UNCHANGED thrown
  /\ UNCHANGED <<callVars, sessVars, retval, outcome, pollVars, outerVars>>

\* const clicked = await page.evaluate(...);  if (!clicked) throw ...
clickNewNotebook ==
  /\ pc = "clickNew"
  /\ \E clicked \in BOOLEAN :
       IF clicked
       THEN pc' = "pollUrl" /\ Log("click:New notebook") /\ UNCHANGED thrown
       ELSE Throw(NewNotebookNotFound) /\ UNCHANGED trace
  /\ UNCHANGED <<callVars, sessVars, retval, outcome, pollVars, outerVars>>

\* One iteration of while (Date.now() < deadline): wait 500 ms, read page.url().
pollUrl ==
  /\ pc = "pollUrl"
  /\ urlPolls < MaxUrlPolls
  /\ urlPolls' = urlPolls + 1
  /\ \E url \in PageUrls :
       /\ pageUrl' = url
       /\ Log("page.url:" \o url)
       /\ IF IsRealNotebookUrl(url)
          THEN notebookUrl' = SplitQuery(url) /\ pc' = "waitNotebookReady"
          ELSE UNCHANGED <<notebookUrl, pc>>
  /\ UNCHANGED <<callVars, sessVars, thrown, retval, outcome, polls, stableCount, lastText,
                 outerVars>>

\* The loop condition fails (deadline passed, after at least one iteration):
\* if (!notebookUrl) throw new Error('Timed out waiting for new notebook to open');
pollUrlDeadline ==
  /\ pc = "pollUrl"
  /\ urlPolls >= 1
  /\ Throw(CreationTimedOut)
  /\ UNCHANGED <<callVars, sessVars, retval, outcome, trace, pollVars, outerVars>>

\* Mutant: the URL is returned as soon as it is seen.
returnWithoutReadiness ==
  /\ pc = "waitNotebookReady"
  /\ Return(notebookUrl)
  /\ UNCHANGED <<callVars, sessVars, thrown, outcome, trace, pollVars, outerVars>>

\* await page.waitForSelector('textarea.query-box-input', visible);  return notebookUrl;
waitNotebookReady ==
  /\ pc = "waitNotebookReady"
  /\ \E ok \in BOOLEAN :
       IF ok
       THEN Return(notebookUrl) /\ Log("ready") /\ UNCHANGED thrown
       ELSE Throw(TimeoutError("textarea.query-box-input")) /\ UNCHANGED <<retval, trace>>
  /\ UNCHANGED <<callVars, sessVars, outcome, pollVars, outerVars>>

----------------------------------------------------------------------------
(* queryNotebook: type the question, wait out the thinking phase, poll the *)
(* newest answer element until its text is stable                          *)

MaxPolls == 5

\* Texts a poll of the answer region can read ("" while nothing is rendered).
AnswerTexts == {"", "Partial", "Partial answer", "Final answer"}

\* Number of consecutive identical non-empty reads that makes an answer final.
StabilityThreshold == 3

\* Mutant: the counter is never reset.
NeverResetCounter(count, prev, text) == count

\* A poll whose text differs from the previous poll's resets the counter.
ResetCounter(count, prev, text) == IF text # prev THEN 0 ELSE count

\* Mutant: empty reads are counted too.
CountEveryPoll(count, text) == count + 1

\* A non-empty read is counted.
CountPoll(count, text) == IF text # "" THEN count + 1 ELSE count

\* Mutant: two identical reads are taken as final.
IsStableAfterTwo(count) == count >= 2

\* The answer is accepted when the counter reaches the threshold.
IsStable(count) == count >= StabilityThreshold

\* Type the question into textarea.query-box-input.
typeQuestion ==
  /\ pc = "typeQuestion"
  /\ \E ok \in BOOLEAN :
       IF ok
       THEN pc' = "submit" /\ Log("type:question") /\ UNCHANGED thrown
       ELSE Throw(TimeoutError("fill textarea.query-box-input")) /\ UNCHANGED trace
  /\ UNCHANGED <<callVars, sessVars, retval, outcome, pollVars, outerVars>>

\* Submit the question.
submitQuestion ==
  /\ pc = "submit"
  /\ pc' = "waitThinking"
  /\ Log("submit")
  /\ UNCHANGED <<callVars, sessVars, thrown, retval, outcome, pollVars, outerVars>>

\* Wait for div.thinking-message to appear and then disappear; an indicator
\* that never appears within the grace period is tolerated.
waitThinking ==
  /\ pc = "waitThinking"
  /\ \E appeared \in BOOLEAN, cleared \in BOOLEAN :
       IF appeared /\ ~cleared
       THEN Throw(TimeoutError("div.thinking-message to be hidden")) /\ UNCHANGED trace
       ELSE /\ pc' = "findAnswer"
            /\ Log(IF appeared THEN "thinking:cleared" ELSE "thinking:absent")
            /\ UNCHANGED thrown
  /\ UNCHANGED <<callVars, sessVars, retval, outcome, pollVars, outerVars>>

\* Identify the newest answer element appended after the submission.
findAnswer ==
  /\ pc = "findAnswer"
  /\ pc' = "poll"
  /\ Log("answer:newest")
  /\ UNCHANGED <<callVars, sessVars, thrown, retval, outcome, pollVars, outerVars>>

\* One poll of the answer element's text.
pollAnswer ==
  /\ pc = "poll"
  /\ Len(polls) < MaxPolls
  /\ \E text \in AnswerTexts :
       LET count == CountPoll(ResetCounter(stableCount, lastText, text), text)
       IN  /\ polls' = Append(polls, text)
           /\ stableCount' = count
           /\ lastText' = text
           /\ IF IsStable(count)
              THEN Return(text)
              ELSE UNCHANGED <<pc, retval>>
  /\ UNCHANGED <<callVars, sessVars, thrown, outcome, trace, pageUrl, urlPolls, notebookUrl,
                 outerVars>>

ResponseTimeout == "ResponseTimeout: answer did not stabilize"

\* Mutant: at the deadline the last text read is returned as the answer.
pollAnswerDeadlineReturnsLast ==
  /\ pc = "poll"
  /\ Len(polls) >= 1
  /\ Return(polls[Len(polls)])
  /\ UNCHANGED <<callVars, sessVars, thrown, outcome, trace, pollVars, outerVars>>

\* The overall deadline passes before the text has stabilized.
pollAnswerDeadline ==
  /\ pc = "poll"
  /\ Len(polls) >= 1
  /\ Throw(ResponseTimeout)
  /\ UNCHANGED <<callVars, sessVars, retval, outcome, trace, pollVars, outerVars>>

----------------------------------------------------------------------------
(* The driver's next-state relation                                        *)

Next ==
  \/ createNotebook \/ addTextSource \/ addUrlSources \/ queryNotebook
  \/ getPatchright \/ launchBaseProfile \/ mkdirTempDir \/ cloneProfile \/ launchClone
  \/ newPage \/ gotoNotebook \/ waitForQueryBox \/ settleAnimations
  \/ evalBackdrop \/ waitAddSourceButton \/ clickAddSource \/ waitKindButtons
  \/ clickKindButton \/ waitPayloadField \/ fillPayload \/ clickInsert
  \/ waitDialogClosed \/ registerSettle
  \/ gotoHome \/ renderWait \/ clickNewNotebook \/ pollUrl \/ pollUrlDeadline
  \/ waitNotebookReady
  \/ typeQuestion \/ submitQuestion \/ waitThinking \/ findAnswer
  \/ pollAnswer \/ pollAnswerDeadline
  \/ unexpectedException
  \/ closeContext \/ removeTempDir

Spec == Init /\ [][Next]_vars

----------------------------------------------------------------------------
(* tools/query.js: handleQuery, the retry loop around callNotebookLM       *)

MAX_RETRIES    == 3
RETRY_DELAY_MS == 2500

\* Mutant: the vocabulary of the earlier handler, /auth|login|timeout|session/i.
isAuthErrorWithTimeout(msg) ==
  LET m == toLowerCase(msg)
  IN  \/ includes(m, "auth")
      \/ includes(m, "login")
      \/ includes(m, "timeout")
      \/ includes(m, "session")

\* /auth|login|session|authenticate/i.test(msg)
isAuthError(msg) ==
  LET m == toLowerCase(msg)
  IN  \/ includes(m, "auth")
      \/ includes(m, "login")
      \/ includes(m, "session")
      \/ includes(m, "authenticate")

\* Ways a callNotebookLM('ask_question', ...) call can reject: where the
\* failure arises in the query operation, and the message of the Error.
\*   acquire  - openPersistentContext could not produce a session
\*   navigate - the notebook page never became ready
\*   answer   - the answer never stabilized
\*   tool     - the NotebookLM side reported a failure of its own
QueryFailures ==
  { [origin |-> "tool",     message |-> "Failed to authenticate session"],
    [origin |-> "tool",     message |-> "RPC timeout after 120000ms - is notebooklm-mcp authenticated?"],
    [origin |-> "navigate", message |-> TimeoutError("textarea.query-box-input")],
    [origin |-> "answer",   message |-> ResponseTimeout],
    [origin |-> "acquire",  message |-> "patchright not found. Ensure notebooklm-mcp has been run at least once"],
    [origin |-> "acquire",  message |-> "Executable doesn't exist at chromium/chrome"],
    [origin |-> "acquire",  message |-> "Failed to launch chromium: Failed to connect to the bus: set your DBUS_SESSION_BUS_ADDRESS instead"] }

QueryAnswers == {"Final answer", "Ship the sync scheduler next"}

Success(answer) == [origin |-> "ok", message |-> answer]

NoConfigText    == "No .digitalpM.json found. Run digitalPM_init first to set up your digital PM notebook."
NoNotebookText  == "No notebook_url in .digitalpM.json. Run digitalPM_init(notebook_url=<url>) to link your NotebookLM notebook."

ReauthHint ==
  join(<< "This is a **notebooklm-mcp session issue**. Quick fix:",
          "",
          "npx notebooklm-mcp@latest",
          "# then use the setup_auth tool to re-authenticate",
          "",
          "Once re-authenticated, restart Claude Code and try again." >>, "\n")

CheckConfigHint ==
  "Make sure notebooklm-mcp is installed and your Google session is active, then try again."

\* const retryNote = attempt > 1 ? ... : '';  the success result's text
SuccessText(answer, n) ==
  join(<< "## Digital PM - project",
          IF n > 1
          THEN "\n> _(Succeeded on attempt " \o ToString(n) \o " of " \o ToString(MAX_RETRIES) \o ")_\n"
          ELSE "",
          "**Q:** question",
          "",
          "---",
          "",
          answer >>, "\n")

\* Mutant: the remedy is chosen the wrong way round.
FailureTextSwapped(message) ==
  join(<< "## Digital PM Query Unavailable",
          "",
          "Failed after " \o ToString(MAX_RETRIES) \o " attempts: **" \o message \o "**",
          "",
          IF isAuthError(message) THEN CheckConfigHint ELSE ReauthHint >>, "\n")

\* The result built after the loop ("All attempts exhausted").
FailureText(message) ==
  join(<< "## Digital PM Query Unavailable",
          "",
          "Failed after " \o ToString(MAX_RETRIES) \o " attempts: **" \o message \o "**",
          "",
          IF isAuthError(message) THEN ReauthHint ELSE CheckConfigHint >>, "\n")

\* Mutant: off by one, retries after the last attempt too.
ShouldRetryOffByOne(message, n) == isAuthError(message) /\ n <= MAX_RETRIES

\* const shouldRetry = isAuthError(err.message) && attempt < MAX_RETRIES;
ShouldRetry(message, n) == isAuthError(message) /\ n < MAX_RETRIES

\* Entry: read the configuration, return early without one, else enter the loop.
handleQuery ==
  /\ hq = "idle"
  /\ \E config \in {"missing", "no_notebook_url", "ok"} :
       CASE config = "missing" ->
              /\ response' = [kind |-> "no_config", text |-> NoConfigText]
              /\ hq' = "done"
              /\ UNCHANGED attempt
         [] config = "no_notebook_url" ->
              /\ response' = [kind |-> "no_config", text |-> NoNotebookText]
              /\ hq' = "done"
              /\ UNCHANGED attempt
         [] OTHER ->
              /\ attempt' = 1
              /\ hq' = "call"
              /\ UNCHANGED response
  /\ UNCHANGED <<lastErr, calls, sleeps, driverVars, handlerVars, sources, svcVars>>

\* The loop body after `await callNotebookLM(...)` has ended with r: either
\* the success return, or the catch block up to its `continue` or `break`;
\* after a `break` the failure result is built and returned.
Attempted(r) ==
  /\ calls' = Append(calls, r)
  /\ IF r.origin = "ok"
     THEN /\ response' = [kind |-> "answer", text |-> SuccessText(r.message, attempt)]
          /\ hq' = "done"
          /\ UNCHANGED lastErr
     ELSE /\ lastErr' = r.message
          /\ IF ShouldRetry(r.message, attempt)
             THEN hq' = "sleep" /\ UNCHANGED response
             ELSE /\ response' = [kind |-> "failure", text |-> FailureText(r.message)]
                  /\ hq' = "done"
  /\ UNCHANGED <<attempt, sleeps>>

\* One iteration of the loop body, the call taken as a whole.
callNotebookLM ==
  /\ hq = "call" /\ rpc = "idle"
  /\ \E r \in QueryFailures \cup {Success(a) : a \in QueryAnswers} : Attempted(r)
  /\ UNCHANGED <<driverVars, handlerVars, sources, svcVars>>

\* await sleep(RETRY_DELAY_MS); continue;
sleep ==
  /\ hq = "sleep"
  /\ sleeps' = Append(sleeps, RETRY_DELAY_MS)
  /\ attempt' = attempt + 1
  /\ hq' = "call"
  /\ UNCHANGED <<lastErr, calls, response, driverVars, handlerVars, sources, svcVars>>

NextHandleQuery == handleQuery \/ callNotebookLM \/ sleep

SpecHandleQuery == Init /\ [][NextHandleQuery]_vars

----------------------------------------------------------------------------
(* services/notebooklm.js: callNotebookLM, the client of the notebooklm-mcp *)
(* subprocess (JSON-RPC over the child's stdin and stdout, one message per  *)
(* line), run inside handleQuery's retry loop                               *)

HANDSHAKE_TIMEOUT_MS == 15000
TOOL_TIMEOUT_MS      == 120000

\* String.prototype.trim, String.prototype.startsWith
isWhiteSpace(c) == c \in {" ", "\n", "\t", "\r"}

RECURSIVE trimStart(_)
trimStart(s) ==
  IF Len(s) > 0 /\ isWhiteSpace(SubSeq(s, 1, 1)) THEN trimStart(SubSeq(s, 2, Len(s))) ELSE s

RECURSIVE trimEnd(_)
trimEnd(s) ==
  IF Len(s) > 0 /\ isWhiteSpace(SubSeq(s, Len(s), Len(s))) THEN trimEnd(SubSeq(s, 1, Len(s) - 1)) ELSE s

trim(s) == trimEnd(trimStart(s))

startsWith(s, prefix) == Len(s) >= Len(prefix) /\ SubSeq(s, 1, Len(prefix)) = prefix

\* Texts a content item of the tool reply can carry.
AuthFailureJson   == "{\"success\":false,\"error\":\"Failed to authenticate session\"}"
OtherFailureJson  == "{\"success\":false,\"error\":\"Notebook not found\"}"
SuccessJson       == "{\"success\":true,\"data\":{\"answer\":\"Ship the sync scheduler next\"}}"
ErrorObjectJson   == "{\"success\":false,\"error\":{\"code\":401}}"
SuccessAbsentJson == "{\"error\":\"Failed to authenticate session\"}"
BracedProse       == "{draft} Ship the sync scheduler next"

\* JSON.parse of the texts above: whether the text parses, and of the parsed
\* object the `success` member and the type and value of the `error` member.
JSONparse(t) ==
  CASE t = AuthFailureJson ->
         [valid |-> TRUE, success |-> "false", errorType |-> "string", error |-> "Failed to authenticate session"]
    [] t = OtherFailureJson ->
         [valid |-> TRUE, success |-> "false", errorType |-> "string", error |-> "Notebook not found"]
    [] t = SuccessJson ->
         [valid |-> TRUE, success |-> "true", errorType |-> "undefined", error |-> ""]
    [] t = ErrorObjectJson ->
         [valid |-> TRUE, success |-> "false", errorType |-> "object", error |-> ""]
    [] t = SuccessAbsentJson ->
         [valid |-> TRUE, success |-> "undefined", errorType |-> "string", error |-> "Failed to authenticate session"]
    [] OTHER ->
         [valid |-> FALSE, success |-> "undefined", errorType |-> "undefined", error |-> ""]

\* A line on the child's stdout, as JSON.parse reads it in readRpcResponse:
\* blank, not JSON, or a JSON-RPC message with its id (0: none), method,
\* error (serialized, "" if none) and result; `serial` is JSON.stringify of
\* the result if there is one and of the whole message if not.
Line(form, id, method, error, hasContent, items, serial) ==
  [form |-> form, id |-> id, method |-> method, error |-> error,
   hasContent |-> hasContent, content |-> items, serial |-> serial]

TimerFires      == Line("timeout", 0, "", "", FALSE, <<>>, "")
BlankLine       == Line("blank", 0, "", "", FALSE, <<>>, "")
LogLine         == Line("text", 0, "", "", FALSE, <<>>, "npm warn exec notebooklm-mcp@latest")
InitializeReply == Line("json", 1, "", "", FALSE, <<>>,
                        "{\"protocolVersion\":\"2024-11-05\",\"capabilities\":{}}")
InitializeError == Line("json", 1, "", "{\"code\":-32602,\"message\":\"Unsupported protocol version\"}",
                        FALSE, <<>>, "")
LogNotification == Line("json", 0, "notifications/message", "", FALSE, <<>>,
                        "{\"jsonrpc\":\"2.0\",\"method\":\"notifications/message\",\"params\":{\"level\":\"info\"}}")
ToolError       == Line("json", 2, "", "{\"code\":-32602,\"message\":\"Unknown tool\"}", FALSE, <<>>, "")
ToolReply(items) == Line("json", 2, "", "", TRUE, items, "")
ToolReplyWithoutContent == Line("json", 2, "", "", FALSE, <<>>, "{\"isError\":false}")

TextContent(t) == [type |-> "text", text |-> t]
ImageItem    == [type |-> "image", text |-> ""]

ToolContents ==
  { <<TextContent("Final answer")>>,
    <<ImageItem, TextContent("Final answer"), TextContent("Ship the sync scheduler next")>>,
    <<TextContent(AuthFailureJson)>>,
    <<TextContent(" " \o OtherFailureJson \o "\n")>>,
    <<TextContent(SuccessJson)>>,
    <<TextContent(ErrorObjectJson)>>,
    <<TextContent(SuccessAbsentJson)>>,
    <<TextContent(BracedProse)>>,
    <<>> }

\* What the child can write while the client waits for the reply to
\* initialize, and while it waits for the reply to tools/call.
HandshakeLines == {BlankLine, LogLine, LogNotification, InitializeReply, InitializeError}
ToolLines ==
  {BlankLine, LogLine, LogNotification, InitializeReply, ToolError, ToolReplyWithoutContent}
    \cup {ToolReply(c) : c \in ToolContents}

\* readRpcResponse: the promise settles on the first line that is not blank,
\* whatever message it is, unless the timer fires first.
RpcTimeout(timeoutMs) ==
  "RPC timeout after " \o ToString(timeoutMs) \o "ms - is notebooklm-mcp authenticated?"

readRpcResponse(line, timeoutMs) ==
  IF line.form = "timeout" THEN [state |-> "rejected", message |-> RpcTimeout(timeoutMs)]
  ELSE IF line.form = "blank" THEN [state |-> "pending", message |-> ""]
  ELSE IF line.form = "text"
       THEN [state |-> "rejected", message |-> "JSON parse error: Unexpected token - raw: " \o line.serial]
  ELSE [state |-> "resolved", message |-> ""]

\* content.filter(item => item.type === 'text').map(item => item.text).join('\n'),
\* or JSON.stringify(toolResp?.result ?? toolResp) without a content array
isTextItem(item) == item.type = "text"
textOf(toolResp) ==
  IF toolResp.hasContent
  THEN LET items == SelectSeq(toolResp.content, isTextItem)
       IN  join([i \in 1..Len(items) |-> items[i].text], "\n")
  ELSE toolResp.serial

\* Mutant: the text is returned whatever it says.
isToolFailureNever(text) == FALSE

\* if (text.trim().startsWith('{')) { parsed = JSON.parse(text.trim()) ...
\*   if (parsed && parsed.success === false && typeof parsed.error === 'string')
isToolFailure(text) ==
  /\ startsWith(trim(text), "{")
  /\ JSONparse(trim(text)).valid
  /\ JSONparse(trim(text)).success = "false"
  /\ JSONparse(trim(text)).errorType = "string"

\* What callNotebookLM makes of the message taken as toolResp.
toolOutcome(toolResp) ==
  IF toolResp.error # ""
  THEN [origin |-> "tool", message |-> "tools/call error: " \o toolResp.error]
  ELSE IF isToolFailure(textOf(toolResp))
  THEN [origin |-> "tool", message |-> JSONparse(trim(textOf(toolResp))).error]
  ELSE Success(textOf(toolResp))

\* spawn('npx', ['notebooklm-mcp@latest']), createInterface, initialize sent
spawnSubprocess ==
  /\ hq = "call" /\ rpc = "idle"
  /\ child' = "running"
  /\ sent' = <<[id |-> 1, method |-> "initialize"]>>
  /\ received' = <<>>
  /\ rpc' = "init"
  /\ UNCHANGED <<hq, attempt, lastErr, calls, sleeps, response, driverVars, handlerVars, sources, searchVars, acqVars>>

\* finally { cleanup(); rl.close(); } and the await in handleQuery ends with r
settle(r) ==
  /\ child' = "killed"
  /\ rpc' = "idle"
  /\ Attempted(r)

\* const initResp = await readRpcResponse(rl, HANDSHAKE_TIMEOUT_MS); then the
\* initialized notification and the tools/call request are sent
readInitResp ==
  /\ rpc = "init"
  /\ \E line \in HandshakeLines \cup {TimerFires} :
       LET p == readRpcResponse(line, HANDSHAKE_TIMEOUT_MS)
       IN  CASE p.state = "pending" -> UNCHANGED <<rpcVars, hqVars>>
             [] p.state = "rejected" ->
                  /\ settle([origin |-> "tool", message |-> p.message])
                  /\ UNCHANGED <<sent, received>>
             [] OTHER ->
                  /\ received' = Append(received, line)
                  /\ IF line.error # ""
                     THEN /\ settle([origin |-> "tool", message |-> "MCP initialize failed: " \o line.error])
                          /\ UNCHANGED sent
                     ELSE /\ sent' = sent \o << [id |-> 0, method |-> "notifications/initialized"],
                                                [id |-> 2, method |-> "tools/call"] >>
                          /\ rpc' = "tool"
                          /\ UNCHANGED <<child, hqVars>>
  /\ UNCHANGED <<driverVars, handlerVars, sources, searchVars, acqVars>>

\* const toolResp = await readRpcResponse(rl, TOOL_TIMEOUT_MS); up to the
\* return or throw
readToolResp ==
  /\ rpc = "tool"
  /\ \E line \in ToolLines \cup {TimerFires} :
       LET p == readRpcResponse(line, TOOL_TIMEOUT_MS)
       IN  CASE p.state = "pending" -> UNCHANGED <<rpcVars, hqVars>>
             [] p.state = "rejected" ->
                  /\ settle([origin |-> "tool", message |-> p.message])
                  /\ UNCHANGED <<sent, received>>
             [] OTHER ->
                  /\ received' = Append(received, line)
                  /\ settle(toolOutcome(line))
                  /\ UNCHANGED sent
  /\ UNCHANGED <<driverVars, handlerVars, sources, searchVars, acqVars>>

NextCallNotebookLM == handleQuery \/ spawnSubprocess \/ readInitResp \/ readToolResp \/ sleep

SpecCallNotebookLM == Init /\ [][NextCallNotebookLM]_vars

----------------------------------------------------------------------------
(* tools/init.js, tools/sync.js, tools/research.js: the handlers that add  *)
(* sources to the linked notebook, one awaited call after the other        *)

MaxAdditions == 2

\* URLs searchTopics can come back with: a page of the web, a page of the
\* search engine itself (the link the search falls back to when a topic has
\* no parsed result), and a result without url.
SearchPage   == "https://duckduckgo.com/?q=roadmap%20tools"
WebPage      == "https://example.com/roadmap-tools"
SearchOutcomes == { <<>>, <<"", WebPage, SearchPage>> }

\* url && !url.includes('duckduckgo.com')
isFetchable(url) == url # "" /\ ~includes(url, "duckduckgo.com")

\* if (r.url)
hasUrl(url) == url # ""

\* handleInit: researchResults.flatMap(r => r.results).map(r => r.url).filter(...)
allUrlsOfInit(rs) == SelectSeq(rs, isFetchable)

\* handleResearch: if (r.url && !r.url.includes('duckduckgo.com')) allUrls.push(r.url);
allUrlsOfResearch(rs) == SelectSeq(rs, isFetchable)

\* handleSync: if (r.url) allUrls.push(r.url);
allUrlsOfSync(rs) == SelectSeq(rs, hasUrl)

\* One awaited call of a handler and what its catch block does when the call
\* throws: "continue" with the next statement, "skip" the rest of the try
\* block the call shares with the next call, or "return" from the handler.
TextItem(l, onThrow) ==
  [op |-> "addTextSource", label |-> l, content |-> "Lorem ipsum",
   urls |-> NullUrls, onThrow |-> onThrow]
UrlItem(list, onThrow) ==
  [op |-> "addUrlSources", label |-> "", content |-> "",
   urls |-> [isNull |-> FALSE, list |-> list], onThrow |-> onThrow]
\* Mutant: a failed creation is logged and the handler goes on.
CreateItemLogged ==
  [op |-> "createNotebook", label |-> "", content |-> "",
   urls |-> NullUrls, onThrow |-> "continue"]

CreateItem ==
  [op |-> "createNotebook", label |-> "", content |-> "",
   urls |-> NullUrls, onThrow |-> "return"]

\* if (allUrls.length > 0) await addUrlSources(allUrls, notebookUrl)
UrlItems(list, onThrow) == IF Len(list) > 0 THEN <<UrlItem(list, onThrow)>> ELSE <<>>

\* findMarkdownFiles(projectPath): the markdown files of the project.
MdFiles == <<"README.md">>

\* The handler runs up to its first awaited call, or returns if it has none.
Begin(name, p) ==
  /\ tool = "none" /\ pc = "idle"
  /\ plan' = p
  /\ tool' = IF p = <<>> THEN "none" ELSE name
  /\ UNCHANGED <<driverVars, hqVars, svcVars, sources, results, additions, clock>>

\* Notebook URLs: none, the one of the existing configuration, the one
\* passed to handleInit.
NoUrl       == "null"
ExistingUrl == "https://notebooklm.google.com/notebook/0b1c-52e8"
PassedUrl   == "https://notebooklm.google.com/notebook/9d4e-a6f0"

\* notebook_url ?? existingConfig?.notebook_url ?? null
targetNotebookUrl(given, existing) == IF given # NoUrl THEN given ELSE existing

\* handleInit: the notebook is created unless a URL is given or configured
\* (step 2) and the configuration is written with the resolved URL (step 3),
\* then the codebase summary (step 4), the research URLs and the research
\* summary inside one try block (step 5), and ROADMAP.md (step 6).
handleInit ==
  \E given \in {NoUrl, PassedUrl} :
    /\ passed' = given
    /\ projectConfig' = targetNotebookUrl(given, projectConfig)
    /\ Begin("handleInit",
             (IF targetNotebookUrl(given, projectConfig) # NoUrl THEN <<>> ELSE <<CreateItem>>)
               \o <<TextItem("Codebase Architecture Summary", "continue")>>
               \o UrlItems(allUrlsOfInit(results), "skip")
               \o <<TextItem("Market & Competitive Research", "continue")>>
               \o <<TextItem("ROADMAP.md", "continue")>>)

\* handleSync on a linked notebook with research topics configured: by
\* mode, the codebase summary and the project's markdown files, then the
\* research URLs and the research summary, each call in a try block of its
\* own.
handleSync ==
  \E mode \in {"code", "research", "both"}, md \in 0..Len(MdFiles) :
    /\ projectConfig # NoUrl
    /\ UNCHANGED cfgVars
    /\ Begin("handleSync",
             (IF mode \in {"code", "both"}
              THEN <<TextItem("Codebase Architecture Summary", "continue")>>
                     \o [i \in 1..md |-> TextItem(MdFiles[i], "continue")]
              ELSE <<>>)
               \o (IF mode \in {"research", "both"}
                   THEN UrlItems(allUrlsOfSync(results), "continue")
                          \o <<TextItem("Research Summary", "continue")>>
                   ELSE <<>>))

\* handleResearch on a linked notebook: the research URLs, then the research
\* summary if a topic had results, each call in a try block of its own.
handleResearch ==
  /\ projectConfig # NoUrl
  /\ UNCHANGED cfgVars
  /\ Begin("handleResearch",
           UrlItems(allUrlsOfResearch(results), "continue")
             \o (IF Len(results) > 0 THEN <<TextItem("Research Summary", "continue")>> ELSE <<>>))

\* The handler reaches `await addTextSource(...)`, `await addUrlSources(...)`
\* or `await createNotebook()`: the call starts.
callAddition ==
  /\ tool # "none" /\ pc = "idle" /\ plan # <<>>
  /\ additions < MaxAdditions
  /\ LET item == Head(plan)
     IN  CASE item.op = "createNotebook" -> createNotebookCall
           [] item.op = "addTextSource"  -> addTextSourceCall(item.label, item.content)
           [] OTHER                      -> addUrlSourcesCall(item.urls)
  /\ additions' = additions + 1
  /\ UNCHANGED <<sessVars, thrown, trace, pollVars, hqVars, svcVars, sources, tool, plan, results, clock, cfgVars>>

\* Mutant: the first call that throws ends the handler.
RestNoneAfterThrow(p, threw) == IF threw THEN <<>> ELSE Tail(p)

\* What is left of the handler's calls after the call at the head of the
\* plan has ended.
Rest(p, threw) ==
  IF ~threw \/ Head(p).onThrow = "continue" THEN Tail(p)
  ELSE IF Head(p).onThrow = "skip" THEN Tail(Tail(p))
  ELSE <<>>

\* The locals of the call that ended are gone.
Forget ==
  /\ op' = "none" /\ urls' = NullUrls /\ label' = "" /\ content' = "" /\ pc' = "idle"
  /\ context' = "none" /\ userDataDir' = "none" /\ tempDir' = NoDir
  /\ launchErr' = "none" /\ launches' = <<>>
  /\ cloneFiles' = {}
  /\ stderr' = <<>> /\ pageUrl' = "null"
  /\ thrown' = "none" /\ retval' = "none" /\ outcome' = "running"
  /\ trace' = <<>> /\ closeCalls' = 0 /\ urlPolls' = 0 /\ notebookUrl' = "null"
  /\ polls' = <<>> /\ stableCount' = 0 /\ lastText' = "null"

\* The handler goes on after the call: the locals of the call are gone, the
\* catch block of the call decides what is run next, the handler returns
\* after its last call.
GoOn ==
  /\ plan' = Rest(plan, outcome # "returned")
  /\ tool' = IF plan' = <<>> THEN "none" ELSE tool
  /\ projectConfig' = IF Head(plan).op = "createNotebook" /\ outcome = "returned" THEN retval ELSE projectConfig
  /\ passed' = IF plan' = <<>> THEN NoUrl ELSE passed
  /\ Forget
  /\ clock' = clock + 1
  /\ UNCHANGED <<held, instanceDirs, baseFiles, sources, hqVars, svcVars, results, additions>>

\* Mutant: the handler does not await the call it started.
resumeWithoutAwait ==
  /\ tool # "none" /\ pc # "idle"
  /\ GoOn

\* The awaited call has returned or thrown.
resume ==
  /\ tool # "none" /\ pc = "done"
  /\ GoOn

InitTools ==
  /\ Fresh
  /\ NoSearch /\ NoClones
  /\ projectConfig \in {NoUrl, ExistingUrl}
  /\ baseFiles = {"Local State", "Default", "Default/Cookies"}
  /\ results \in SearchOutcomes

NextTools ==
  \/ handleInit \/ handleSync \/ handleResearch
  \/ callAddition \/ resume
  \/ getPatchright \/ launchBaseProfile \/ mkdirTempDir \/ cloneProfile \/ launchClone
  \/ newPage \/ gotoNotebook \/ waitForQueryBox \/ settleAnimations
  \/ evalBackdrop \/ waitAddSourceButton \/ clickAddSource \/ waitKindButtons
  \/ clickKindButton \/ waitPayloadField \/ fillPayload \/ clickInsert
  \/ waitDialogClosed \/ registerSettle
  \/ gotoHome \/ renderWait \/ clickNewNotebook \/ pollUrl \/ pollUrlDeadline
  \/ waitNotebookReady
  \/ unexpectedException
  \/ closeContext \/ removeTempDir

SpecTools == InitTools /\ [][NextTools]_vars

----------------------------------------------------------------------------
(* services/research.js: searchTopic and searchTopics (Tavily)              *)

MaxTopics == 3

Topics == {"roadmap tools", "sync scheduler"}

RECURSIVE SeqsUpTo(_, _)
SeqsUpTo(S, n) ==
  IF n = 0 THEN {<<>>}
  ELSE LET shorter == SeqsUpTo(S, n - 1)
       IN  shorter \cup {Append(q, x) : q \in shorter, x \in S}

\* What the request to the Tavily endpoint comes to: fetch rejects (network
\* error, 15 s abort), a status that is not ok, a body that is not JSON, or
\* a JSON body with or without a `results` array.
Fetched(kind, status, items) == [kind |-> kind, status |-> status, results |-> items]

TavilyItem(url, title, text) == [url |-> url, title |-> title, content |-> text]

FetchOutcomes ==
  { Fetched("rejects", 0, <<>>),
    Fetched("status", 401, <<>>),
    Fetched("status", 429, <<>>),
    Fetched("not_json", 200, <<>>),
    Fetched("no_results_member", 200, <<>>),
    Fetched("results", 200, <<>>),
    Fetched("results", 200, <<TavilyItem(WebPage, "Roadmap tools compared", "Lorem ipsum")>>),
    Fetched("results", 200, <<TavilyItem(WebPage, "undefined", "Lorem ipsum"),
                              TavilyItem(SearchPage, "roadmap tools at DuckDuckGo", "")>>) }

MissingKey == "TAVILY_API_KEY is not set."

\* r => ({ url: r.url, title: r.title ?? r.url, description: (r.content ?? r.snippet ?? '').slice(0, 400) })
toResult(r) ==
  [url |-> r.url,
   title |-> IF r.title = "undefined" THEN r.url ELSE r.title,
   description |-> IF Len(r.content) > 400 THEN SubSeq(r.content, 1, 400) ELSE r.content]

\* searchTopic: getTavilyKey() before the try block, the request and the
\* mapping of data.results inside it, `return []` in its catch.
searchTopic(key, fetched) ==
  IF ~key THEN [threw |-> TRUE, message |-> MissingKey, results |-> <<>>]
  ELSE IF fetched.kind = "results"
  THEN [threw |-> FALSE, message |-> "",
        results |-> [i \in 1..Len(fetched.results) |-> toResult(fetched.results[i])]]
  ELSE [threw |-> FALSE, message |-> "", results |-> <<>>]

\* searchTopics(topics): const all = [];
searchTopics ==
  /\ search = "idle"
  /\ all' = <<>>
  /\ search' = "loop"
  /\ UNCHANGED <<tavilyKey, topics, searchErr>>
  /\ UNCHANGED <<driverVars, hqVars, handlerVars, sources, rpcVars, acqVars>>

\* One iteration: const results = await searchTopic(topics[i]);
\* all.push({ topic: topics[i], results }); the pause between requests.
awaitSearchTopic ==
  /\ search = "loop" /\ Len(all) < Len(topics)
  /\ \E fetched \in FetchOutcomes :
       LET r == searchTopic(tavilyKey, fetched)
       IN  IF r.threw
           THEN /\ search' = "threw"
                /\ searchErr' = r.message
                /\ UNCHANGED all
           ELSE /\ all' = Append(all, [topic |-> topics[Len(all) + 1], results |-> r.results])
                /\ UNCHANGED <<search, searchErr>>
  /\ UNCHANGED <<tavilyKey, topics>>
  /\ UNCHANGED <<driverVars, hqVars, handlerVars, sources, rpcVars, acqVars>>

\* return all;
returnAll ==
  /\ search = "loop" /\ Len(all) = Len(topics)
  /\ search' = "returned"
  /\ UNCHANGED <<tavilyKey, topics, all, searchErr>>
  /\ UNCHANGED <<driverVars, hqVars, handlerVars, sources, rpcVars, acqVars>>

InitSearch ==
  /\ Fresh
  /\ NoClones
  /\ projectConfig = "null"
  /\ baseFiles = {"Local State", "Default", "Default/Cookies"}
  /\ results = <<>>
  /\ tavilyKey \in BOOLEAN
  /\ topics \in SeqsUpTo(Topics, MaxTopics)

NextSearch == searchTopics \/ awaitSearchTopic \/ returnAll

SpecSearch == InitSearch /\ [][NextSearch]_vars

----------------------------------------------------------------------------
(* openPersistentContext and the finally of withNotebookPage, for two       *)
(* calls that overlap: both find the base profile locked and clone it.      *)
(* The calls are steps of one event loop when they have the same pid, of    *)
(* two processes sharing the instances directory when they have not.        *)

OtherPid  == 4712
Pids      == {ProcessPid, OtherPid}
MaxClock  == 3

\* A millisecond passes.
tick ==
  /\ clock < MaxClock
  /\ clock' = clock + 1
  /\ UNCHANGED <<acqPid, acqPc, acqDir>>
  /\ UNCHANGED <<driverVars, hqVars, rpcVars, searchVars, sources, tool, plan, results, additions, cfgVars>>

\* The first launch rejected with the singleton error: the catch block takes
\* the stamp from process.pid and Date.now() and awaits fs.mkdir(tempDir,
\* { recursive: true }), which accepts a directory that exists.
stampAndMkdir(a) ==
  /\ acqPc[a] = "locked"
  /\ acqDir' = [acqDir EXCEPT ![a] = InstancePath(acqPid[a], clock)]
  /\ instanceDirs' = instanceDirs \cup {InstancePath(acqPid[a], clock)}
  /\ acqPc' = [acqPc EXCEPT ![a] = "cp"]
  /\ UNCHANGED <<acqPid, clock>>
  /\ UNCHANGED <<callVars, held, pc, context, userDataDir, tempDir, thrown, retval, outcome, trace,
                 closeCalls, launchErr, launches, fsVars, stderr, pollVars,
                 hqVars, handlerVars, sources, rpcVars, searchVars>>

\* await fs.cp(baseProfile, tempDir, ...), best effort
copyProfile(a) ==
  /\ acqPc[a] = "cp"
  /\ acqPc' = [acqPc EXCEPT ![a] = "launch"]
  /\ UNCHANGED <<acqPid, acqDir>>
  /\ UNCHANGED <<driverVars, hqVars, handlerVars, sources, rpcVars, searchVars>>

\* A context of another call is open on the directory.
InUseByOther(a, dir) == \E b \in Acquirers \ {a} : acqPc[b] = "open" /\ acqDir[b] = dir

\* await launchPersistentContext(tempDir, launchOptions): Chrome refuses a
\* directory another Chrome holds, and the rejection leaves the function.
launchOnClone(a) ==
  /\ acqPc[a] = "launch"
  /\ \E ok \in BOOLEAN :
       acqPc' = [acqPc EXCEPT ![a] = IF ok /\ ~InUseByOther(a, acqDir[a]) THEN "open" ELSE "threw"]
  /\ UNCHANGED <<acqPid, acqDir>>
  /\ UNCHANGED <<driverVars, hqVars, handlerVars, sources, rpcVars, searchVars>>

\* finally: await context.close(), after the callback ended either way
closeSession(a) ==
  /\ acqPc[a] = "open"
  /\ \E ok \in BOOLEAN :
       acqPc' = [acqPc EXCEPT ![a] = IF ok THEN "closed" ELSE "threw"]
  /\ UNCHANGED <<acqPid, acqDir>>
  /\ UNCHANGED <<driverVars, hqVars, handlerVars, sources, rpcVars, searchVars>>

\* finally: try { await fs.rm(tempDir, { recursive: true, force: true }) } catch {}
removeClone(a) ==
  /\ acqPc[a] = "closed"
  /\ \E ok \in BOOLEAN :
       IF ok THEN instanceDirs' = instanceDirs \ {acqDir[a]} ELSE UNCHANGED instanceDirs
  /\ acqPc' = [acqPc EXCEPT ![a] = "done"]
  /\ UNCHANGED <<acqPid, acqDir, clock>>
  /\ UNCHANGED <<callVars, held, pc, context, userDataDir, tempDir, thrown, retval, outcome, trace,
                 closeCalls, launchErr, launches, fsVars, stderr, pollVars,
                 hqVars, handlerVars, sources, rpcVars, searchVars>>

InitClones ==
  /\ Fresh
  /\ NoSearch
  /\ projectConfig = "null"
  /\ baseFiles = {"Local State", "Default", "Default/Cookies", BrowserLock}
  /\ results = <<>>
  /\ acqPid \in [Acquirers -> Pids]
  /\ acqPc = [a \in Acquirers |-> "locked"]
  /\ acqDir = [a \in Acquirers |-> NoDir]

NextClones ==
  \/ tick
  \/ \E a \in Acquirers :
       stampAndMkdir(a) \/ copyProfile(a) \/ launchOnClone(a) \/ closeSession(a) \/ removeClone(a)

SpecClones == InitClones /\ [][NextClones]_vars

----------------------------------------------------------------------------
(* Properties                                                              *)

Last(s) == s[Len(s)]

DriverOps == {"createNotebook", "addTextSource", "addUrlSources"}

\* C1: when a call of createNotebook, addTextSource or addUrlSources that
\* opened a browser context has ended, by return or by throw, close() has been
\* called on that context exactly once, and the context is closed unless
\* close() itself rejected.
C1_SessionClosedOnEveryExit ==
  (pc = "done" /\ op \in DriverOps /\ context # "none")
    => /\ closeCalls = 1
       /\ (thrown # CloseFailed => context = "closed")

\* C1 witness: an addTextSource call that opened a session and threw from a
\* dialog step (the Insert button was not found) has ended.
C1_Witness ==
  /\ pc = "done" /\ op = "addTextSource" /\ outcome = "threw"
  /\ thrown = "Insert button not found"
  /\ context = "closed"

\* C2: once a call that created a cloned workspace has ended, the clone's
\* directory no longer exists.
C2_CloneRemovedOnEveryExit ==
  (pc = "done" /\ tempDir # NoDir) => tempDir \notin instanceDirs

Accepted == op = "queryNotebook" /\ retval # "none"

\* The reads end in three identical non-empty reads.
EndsInStableRun(s) ==
  /\ Len(s) >= 3
  /\ Last(s) # ""
  /\ s[Len(s) - 1] = Last(s)
  /\ s[Len(s) - 2] = Last(s)

\* C3: a poll whose text differs from the previous poll's text resets the
\* match counter to zero before the poll itself is counted (so the counter
\* holds nothing of the earlier reads: 1 after a non-empty read, 0 after an
\* empty one), and a poll accepts the answer only with the counter at 3 and the
\* last three reads identical and non-empty.
C3_ResetOnDifferingPoll ==
  [][ (pc = "poll" /\ polls' # polls) =>
        LET text == Last(polls')
        IN  /\ text # lastText => stableCount' = (IF text = "" THEN 0 ELSE 1)
            /\ retval' # "none" =>
                 /\ stableCount' = 3
                 /\ EndsInStableRun(polls') ]_vars

\* C3 witness: an answer was accepted at the fifth read after the counter had
\* been reset by the differing second and third reads.
C3_Witness ==
  /\ Accepted /\ Len(polls) = 5
  /\ polls[1] # "" /\ polls[2] # polls[1] /\ polls[3] # polls[2]
  /\ stableCount = 3

\* Length of the run of identical non-empty reads the sequence ends in.
RECURSIVE TrailingRun(_)
TrailingRun(s) ==
  IF s = <<>> THEN 0
  ELSE IF Last(s) = "" THEN 0
  ELSE IF Len(s) >= 2 /\ s[Len(s) - 1] = Last(s)
       THEN 1 + TrailingRun(SubSeq(s, 1, Len(s) - 1))
       ELSE 1

\* C4: the query engine has returned a response exactly when the reads so far
\* end in a run of at least 3 identical non-empty reads, and the counter is the
\* length of the run of identical non-empty reads the sequence ends in.
C4_ResponseIffStableRun ==
  op = "queryNotebook" =>
    /\ Accepted <=> EndsInStableRun(polls)
    /\ stableCount = TrailingRun(polls)

\* C4 witness: a response returned after four reads, the first of which
\* differed from the run that followed.
C4_Witness ==
  /\ Accepted /\ Len(polls) = 4
  /\ polls[1] # polls[2]
  /\ outcome = "returned"

ScenarioB == <<"Partial", "Partial answer", "Final answer", "Final answer", "Final answer">>

IsPrefix(p, s) == Len(p) <= Len(s) /\ p = SubSeq(s, 1, Len(p))

\* C5: the answer is the text of the first poll that completes three trailing
\* identical non-empty reads; on the reads of Scenario B nothing is returned
\* before the fifth read, and "Final answer" is returned at the fifth.
C5_ResolvesAtFirstStablePoll ==
  op = "queryNotebook" =>
    /\ Accepted =>
         /\ retval = Last(polls)
         /\ \A k \in 1..(Len(polls) - 1) : ~EndsInStableRun(SubSeq(polls, 1, k))
    /\ IsPrefix(polls, ScenarioB) =>
         retval = (IF Len(polls) = 5 THEN "Final answer" ELSE "none")

\* C5 witness: the call returned "Final answer" after exactly the five reads
\* of Scenario B.
C5_Witness ==
  /\ op = "queryNotebook" /\ polls = ScenarioB
  /\ pc = "done" /\ outcome = "returned" /\ retval = "Final answer"

\* The authentication/session vocabulary of the retry policy.
MatchesAuthVocabulary(msg) ==
  \E w \in {"auth", "login", "session", "authenticate"} : includes(toLowerCase(msg), w)

Failed(r) == r.origin # "ok"
AuthFailure(r) == Failed(r) /\ MatchesAuthVocabulary(r.message)

NamesReauth(text)      == includes(text, "setup_auth tool to re-authenticate")
NamesCheckConfig(text) == includes(text, "Make sure notebooklm-mcp is installed")

\* C6: handleQuery makes at most 3 attempts, sleeps 2.5 s before every attempt
\* but the first, and when three attempts in a row fail with an
\* authentication/session failure it has made exactly 3 attempts with two
\* 2.5 s delays and has returned a failure that names re-authentication.
C6_AtMostThreeAttempts ==
  /\ Len(calls) <= 3
  /\ \A i \in 1..Len(sleeps) : sleeps[i] = 2500
  /\ (hq \in {"call", "done"} /\ attempt >= 1) =>
       (Len(sleeps) = attempt - 1 /\ Len(calls) \in {attempt - 1, attempt})
  /\ (Len(calls) >= 3 /\ \A i \in 1..3 : AuthFailure(calls[i])) =>
       /\ hq = "done"
       /\ Len(calls) = 3
       /\ sleeps = <<2500, 2500>>
       /\ response.kind = "failure"
       /\ NamesReauth(response.text)

\* C6 witness: three attempts in a row failed with an authentication failure.
C6_Witness ==
  /\ hq = "done" /\ Len(calls) = 3
  /\ \A i \in 1..3 : AuthFailure(calls[i])

\* C7: every attempt that was followed by a delay or another attempt failed
\* with a message that matches the authentication/session vocabulary; a
\* failure with any other message ends the call in that attempt, with no delay
\* after it.
C7_RetryOnlyOnAuthVocabulary ==
  /\ \A i \in 1..Len(calls) :
       (i < Len(calls) \/ hq = "sleep") => AuthFailure(calls[i])
  /\ (calls # <<>> /\ Failed(Last(calls)) /\ ~MatchesAuthVocabulary(Last(calls).message)) =>
       /\ hq = "done"
       /\ response.kind = "failure"
       /\ Len(sleeps) = Len(calls) - 1

\* C7 witness: the first attempt failed with an authentication failure and
\* was retried, the second failed with a navigation timeout and ended the call.
C7_Witness ==
  /\ hq = "done" /\ Len(calls) = 2 /\ Len(sleeps) = 1
  /\ AuthFailure(calls[1])
  /\ calls[2].origin = "navigate"

\* C8: an attempt that failed because no automation session could be obtained
\* is the last attempt of the call.
C8_SessionErrorNeverRetried ==
  \A i \in 1..Len(calls) :
    calls[i].origin = "acquire" => (i = Len(calls) /\ hq = "done")

\* C9: when handleQuery is over it has returned a structured result; after a
\* failed last attempt that result is a failure that names re-authentication
\* exactly when the last failure's message matches the authentication/session
\* vocabulary, and names the configuration check otherwise.
C9_StructuredFailureResult ==
  hq = "done" =>
    /\ response.kind \in {"answer", "failure", "no_config"}
    /\ (calls # <<>> /\ Failed(Last(calls))) =>
         /\ response.kind = "failure"
         /\ NamesReauth(response.text) <=> MatchesAuthVocabulary(Last(calls).message)
         /\ NamesCheckConfig(response.text) <=> ~MatchesAuthVocabulary(Last(calls).message)

\* C9 witness: a single attempt failed outside the vocabulary and the result
\* names the configuration check.
C9_Witness ==
  /\ hq = "done" /\ Len(calls) = 1
  /\ calls[1].origin = "answer"
  /\ response.kind = "failure"
  /\ NamesCheckConfig(response.text)

\* C10: the failure text handed to the caller does not contain the raw message
\* of the error the failed step raised.
C10_NoRawErrorInFailureText ==
  response.kind = "failure" => ~includes(response.text, lastErr)

\* Launch failures of the "already in use" class: another process holds the
\* profile directory.
InUseFailures ==
  { "Failed to create a ProcessSingleton for your profile directory",
    "Failed to create notebooklm-mcp/chrome_profile/SingletonLock: File exists (17)",
    "The profile is already in use by another Chromium process" }

Contention == launchErr \in InUseFailures

\* The lock/temporary marker pattern of a file or directory name.
MatchesMarkerPattern(name) ==
  \/ Len(name) >= 9 /\ SubSeq(name, 1, 9) = "Singleton"
  \/ endsWith(name, ".lock")
  \/ endsWith(name, ".tmp")

\* A name that is a marker in any spelling of "Singleton".
MarkerLike(name) ==
  \/ MatchesMarkerPattern(name)
  \/ Len(name) >= 9 /\ toLowerCase(SubSeq(name, 1, 9)) = "singleton"

\* Entries of a profile that are no marker and lie in no marker directory.
Unmarked(files) ==
  {f \in files : \A p \in Parents(f) \cup {f} : ~MarkerLike(basename(p))}

\* C11: when the first launch, on the base profile, fails with an in-use
\* failure, that failure does not end the call: the only failure before the
\* second launch is one of creating the clone directory; the second launch is
\* made on a created clone directory that holds a copy of the base profile
\* (all of its unmarked entries unless a copy warning was written), and a
\* session that is open is open on that clone and tempDir reports it.
C11_InUseFallsBackToClone ==
  Contention =>
    /\ (pc = "done" /\ Len(launches) = 1) => thrown # launchErr
    /\ pc = "launchClone" =>
         /\ tempDir # NoDir /\ tempDir \in instanceDirs
         /\ cloneFiles \subseteq baseFiles
         /\ (stderr = <<CloningNotice>>) => Unmarked(baseFiles) \subseteq cloneFiles
    /\ Len(launches) = 2 => launches[2] = tempDir /\ tempDir # NoDir
    /\ context # "none" => userDataDir = tempDir /\ tempDir # NoDir

\* C11 witness: the base profile was in use and the session is open on a
\* clone that holds copied entries.
C11_Witness ==
  /\ launchErr = "The profile is already in use by another Chromium process"
  /\ context = "open" /\ userDataDir = tempDir /\ tempDir # NoDir
  /\ tempDir \in instanceDirs
  /\ "Default/Cookies" \in cloneFiles

\* C12: when the first launch fails with a failure outside the in-use class,
\* the call has ended by throwing that failure: no clone directory was
\* created, nothing was copied and no second launch was made.
C12_OtherLaunchFailureIsFatal ==
  (launchErr # "none" /\ ~Contention) =>
    /\ pc = "done" /\ outcome = "threw" /\ thrown = launchErr
    /\ tempDir = NoDir /\ instanceDirs = {} /\ cloneFiles = {}
    /\ launches = <<BaseProfile>>
    /\ context = "none"

\* C12 witness: the first launch failed because the browser executable is
\* missing.
C12_Witness ==
  /\ launchErr = "Executable doesn't exist at chromium/chrome"
  /\ pc = "done" /\ thrown = launchErr

\* C13: under contention the second launch is made on a path different from
\* the base profile, and an acquisition that produced a session reports a
\* tempDir exactly when the session runs on a directory other than the base
\* profile (the directory of the last launch).
C13_CloneDistinctFromBase ==
  /\ (Contention /\ Len(launches) = 2) => launches[2] # BaseProfile
  /\ context # "none" =>
       /\ userDataDir = Last(launches)
       /\ tempDir # NoDir <=> userDataDir # BaseProfile
       /\ Contention => userDataDir # BaseProfile

\* C13 witness: a call whose session ran on the clone has ended.
C13_Witness ==
  /\ Contention /\ pc = "done" /\ context = "closed"
  /\ userDataDir = InstanceDir /\ tempDir = InstanceDir
  /\ launches = <<BaseProfile, InstanceDir>>

\* C14: once the first launch has failed with an in-use failure, no step of
\* the call changes the contents of the base profile directory: creating the
\* clone, copying, running the browser, closing it and removing the clone
\* write into tempDir only.
C14_BaseProfileUnchangedUnderContention ==
  [][ Contention =>
        /\ baseFiles' = baseFiles
        /\ cloneFiles' # cloneFiles => tempDir # BaseProfile
        /\ launches' # launches => Last(launches') # BaseProfile ]_vars

\* C14 witness: a call under contention has ended after the clone was
\* written by the copy and the browser, and removed again.
C14_Witness ==
  /\ Contention /\ pc = "done" /\ context = "closed"
  /\ Len(launches) = 2
  /\ tempDir # NoDir /\ tempDir \notin instanceDirs /\ cloneFiles = {}
  /\ BrowserLock \notin baseFiles /\ baseFiles # {}

\* C15: when the copy into the clone is over (and before a browser runs on
\* the clone), no entry of the clone has a name that starts with "Singleton"
\* or ends in ".lock" or ".tmp", whatever the base profile holds.
C15_CloneHasNoMarkerFiles ==
  (Contention /\ pc = "launchClone") =>
    \A f \in cloneFiles : ~MatchesMarkerPattern(basename(f))

\* C15 witness: a base profile holding a lock file, a temporary file and a
\* lower-case singleton socket has been copied.
C15_Witness ==
  /\ Contention /\ pc = "launchClone"
  /\ {"Default/Cookies.lock", "Default/Prefs.tmp", "singletonsocket"} \subseteq baseFiles
  /\ cloneFiles = {"Default", "Default/Cookies"}

\* C16: a failure of the copy never ends the call: whenever a clone warning
\* has been written, the error of the copy is not the call's error, the call
\* has gone on to the second launch, that launch is made on tempDir, and a
\* session that is open runs on the (possibly partial) clone.
C16_PartialCloneIsNotFatal ==
  /\ thrown # CopyError
  /\ (stderr # <<>> /\ Last(stderr) = CloneWarning(CopyError)) =>
       /\ pc = "launchClone" \/ Len(launches) = 2
       /\ Len(launches) = 2 => launches[2] = tempDir
       /\ context # "none" => userDataDir = tempDir

\* C16 witness: the copy failed before it reached Default/Cookies and the
\* session is open on the partial clone.
C16_Witness ==
  /\ context = "open" /\ userDataDir = tempDir /\ tempDir # NoDir
  /\ stderr = <<CloningNotice, CloneWarning(CopyError)>>
  /\ "Default/Cookies" \in baseFiles
  /\ "Default/Cookies" \notin cloneFiles

InTrace(step) == \E i \in 1..Len(trace) : trace[i] = step

NotebookPrefix == "https://notebooklm.google.com/notebook/"

\* The shape of a real notebook's URL: the notebook path followed by an
\* identifier that is not the provisioning placeholder, and nothing else.
HasRepositoryShape(url) ==
  /\ Len(url) > Len(NotebookPrefix)
  /\ SubSeq(url, 1, Len(NotebookPrefix)) = NotebookPrefix
  /\ LET id == SubSeq(url, Len(NotebookPrefix) + 1, Len(url))
     IN  id # "creating" /\ ~includes(id, "/") /\ ~includes(id, "?")

\* C17: a read of the page URL that shows the placeholder or no notebook URL
\* leaves createNotebook polling with nothing chosen, and every URL
\* createNotebook returns has the shape of a real notebook URL, never the
\* placeholder.
C17_NeverReturnsPlaceholder ==
  [][ /\ (pc = "pollUrl" /\ urlPolls' # urlPolls
            /\ ~HasRepositoryShape(SplitQuery(pageUrl'))) =>
          (pc' = "pollUrl" /\ notebookUrl' = "null" /\ retval' = "none")
      /\ (op = "createNotebook" /\ retval' # "none") =>
          (HasRepositoryShape(retval') /\ retval' = SplitQuery(pageUrl')) ]_vars

\* C17 witness: createNotebook read the placeholder URL, went on polling and
\* returned the real notebook URL without its query string.
C17_Witness ==
  /\ op = "createNotebook" /\ pc = "done" /\ outcome = "returned"
  /\ InTrace("page.url:https://notebooklm.google.com/notebook/creating")
  /\ pageUrl = "https://notebooklm.google.com/notebook/3f2a-77c1?pli=1"
  /\ retval = "https://notebooklm.google.com/notebook/3f2a-77c1"

QueryBoxTimeout == TimeoutError("textarea.query-box-input")

\* C18: createNotebook has a return value only if its last two page steps
\* were the read of a real notebook URL and then the question input becoming
\* visible, and the value is that URL; when the wait for the question input
\* times out the call throws and has no return value.
C18_ReturnsOnlyAfterReadiness ==
  op = "createNotebook" =>
    /\ retval # "none" =>
         /\ Len(trace) >= 2
         /\ Last(trace) = "ready"
         /\ trace[Len(trace) - 1] = "page.url:" \o pageUrl
         /\ HasRepositoryShape(SplitQuery(pageUrl))
         /\ retval = notebookUrl
    /\ thrown = QueryBoxTimeout =>
         /\ retval = "none"
         /\ pc = "done" => outcome = "threw"

\* C18 witness: createNotebook returned after the first URL read showed the
\* real notebook and the question input became visible.
C18_Witness ==
  /\ op = "createNotebook" /\ pc = "done" /\ outcome = "returned"
  /\ urlPolls = 1 /\ Last(trace) = "ready" /\ retval = notebookUrl

\* C19: the URL poll is entered only after the New notebook control was
\* clicked; when the control is not found the call throws the not-found error
\* with no click and no URL read; when no real URL is read before the deadline
\* it throws the timed-out error after the click and at least one read; in
\* both cases nothing is returned.
C19_CreateFailuresReturnNoHandle ==
  op = "createNotebook" =>
    /\ (urlPolls >= 1 \/ pc \in {"pollUrl", "waitNotebookReady"}) => InTrace("click:New notebook")
    /\ pc = "waitNotebookReady" => notebookUrl # "null"
    /\ thrown = NewNotebookNotFound =>
         /\ ~InTrace("click:New notebook")
         /\ urlPolls = 0 /\ pageUrl = "null"
         /\ retval = "none" /\ (pc = "done" => outcome = "threw")
    /\ thrown = CreationTimedOut =>
         /\ InTrace("click:New notebook")
         /\ urlPolls >= 1 /\ notebookUrl = "null"
         /\ ~HasRepositoryShape(SplitQuery(pageUrl))
         /\ retval = "none" /\ (pc = "done" => outcome = "threw")

\* C19 witness: the control was clicked, two reads showed the placeholder and
\* the call ended with the timed-out error.
C19_Witness ==
  /\ op = "createNotebook" /\ pc = "done" /\ outcome = "threw"
  /\ thrown = CreationTimedOut
  /\ urlPolls = 2
  /\ pageUrl = "https://notebooklm.google.com/notebook/creating"

\* C20: when the backdrop check found an overlay showing, the Add source
\* button is never clicked and the next step is the wait for the source-type
\* buttons; the button is clicked only after the check found no overlay.
C20_NoOpenClickWhenOverlayShowing ==
  /\ InTrace("backdrop:present") => ~InTrace("click:Add source")
  /\ InTrace("click:Add source") => InTrace("backdrop:absent")
  /\ (trace # <<>> /\ Last(trace) = "backdrop:present") =>
       pc \in {"waitKindButtons", "close", "rm", "done"}
  /\ (trace # <<>> /\ Last(trace) = "backdrop:absent") =>
       pc \in {"waitAddSource", "clickAddSource", "close", "rm", "done"}

\* C20 witness: addUrlSources found the dialog already open, did not click
\* Add source, and completed.
C20_Witness ==
  /\ op = "addUrlSources" /\ pc = "done" /\ outcome = "returned"
  /\ InTrace("backdrop:present") /\ InTrace("dialog:open")
  /\ ~InTrace("click:Add source")

\* The call is an addition that goes to the notebook (not the early return
\* of an empty URL list).
DialogCall ==
  \/ op = "addTextSource"
  \/ op = "addUrlSources" /\ ~urls.isNull /\ urls.list # <<>>

KindOf(o) == IF o = "addTextSource" THEN "Copied text" ELSE "Websites"

Navigation == <<"goto", "ready", "settle1500">>

\* The page steps of one addition, in the order of the dialog's state
\* machine: open (a click unless the dialog is already open), select kind,
\* fill payload, click confirm, observe closure, settle delay.
DialogOrder(kind, preOpened) ==
  Navigation
    \o (IF preOpened THEN <<"backdrop:present">> ELSE <<"backdrop:absent", "click:Add source">>)
    \o <<"dialog:open", "click:" \o kind, "fill", "click:Insert", "dialog:closed", "settle2000">>

\* C21: at every moment of an addition the page steps performed so far are an
\* initial part of the dialog's order (open, select kind, fill, confirm,
\* closure, settle), and the call has a return value only when all of them,
\* closure included, have been performed.
C21_DialogStepsInOrder ==
  DialogCall =>
    \E preOpened \in BOOLEAN :
      /\ IsPrefix(trace, DialogOrder(KindOf(op), preOpened))
      /\ retval # "none" => trace = DialogOrder(KindOf(op), preOpened)

\* C21 witness: addUrlSources returned after the full sequence of steps,
\* opening the dialog with a click.
C21_Witness ==
  /\ op = "addUrlSources" /\ pc = "done" /\ outcome = "returned"
  /\ trace = DialogOrder("Websites", FALSE)

\* C22: addUrlSources called with no list or an empty list has returned at
\* once: no launch was made, no context exists, no clone directory was created,
\* no page step was performed and nothing was written.
C22_EmptyUrlListIsNoOp ==
  (op = "addUrlSources" /\ (urls.isNull \/ urls.list = <<>>)) =>
    /\ pc = "done" /\ outcome = "returned" /\ thrown = "none"
    /\ launches = <<>> /\ context = "none" /\ closeCalls = 0
    /\ tempDir = NoDir /\ instanceDirs = {} /\ cloneFiles = {}
    /\ trace = <<>> /\ stderr = <<>>
    /\ baseFiles \in Profiles

\* C22 witness: addUrlSources was called with an empty array.
C22_Witness ==
  /\ op = "addUrlSources" /\ ~urls.isNull /\ urls.list = <<>>
  /\ pc = "done"

Count(step) == Cardinality({i \in 1..Len(trace) : trace[i] = step})

\* C23: an addTextSource call performs each step of the dialog cycle at most
\* once and never clicks the Websites button; when it has returned it has
\* performed exactly one open, one fill, one Insert click, one closure and one
\* settle delay, on one context that was closed once.
C23_OneCycleForPastedText ==
  op = "addTextSource" =>
    /\ \A step \in {"dialog:open", "click:Copied text", "fill", "click:Insert",
                    "dialog:closed", "settle2000"} : Count(step) <= 1
    /\ ~InTrace("click:Websites")
    /\ Len(launches) <= 2 /\ closeCalls <= 1
    /\ outcome = "returned" =>
         /\ \A step \in {"dialog:open", "click:Copied text", "fill", "click:Insert",
                         "dialog:closed", "settle2000"} : Count(step) = 1
         /\ closeCalls = 1 /\ context = "closed"

\* C23 witness: addTextSource returned after one cycle on a dialog that was
\* already open.
C23_Witness ==
  /\ op = "addTextSource" /\ pc = "done" /\ outcome = "returned"
  /\ InTrace("backdrop:present") /\ InTrace("click:Copied text")
  /\ Count("settle2000") = 1

\* The errors of the dialog steps.
KindButtonNotFound   == {"Copied text button not found", "Websites button not found"}
PayloadFieldTimeout  == {TimeoutError("textarea.copied-text-input-textarea"),
                         TimeoutError(".cdk-overlay-container textarea")}
ConfirmNotFound      == "Insert button not found"
ClosureTimeout       == TimeoutError("button.drop-zone-icon-button to be hidden")
DialogFailures       == KindButtonNotFound \cup PayloadFieldTimeout \cup {ConfirmNotFound, ClosureTimeout}

\* C24: once a dialog step has failed the call is in its finally block or
\* over, with that error and no return value, and the later steps were not
\* performed: no fill and no Insert click after a missing kind button or
\* payload field, no closure and no settle delay after a missing Insert
\* button, no settle delay without an observed closure; no step is performed
\* twice.
C24_DialogFailureAborts ==
  DialogCall =>
    /\ thrown \in DialogFailures =>
         /\ pc \in {"close", "rm", "done"}
         /\ retval = "none"
         /\ pc = "done" => outcome = "threw"
    /\ thrown \in KindButtonNotFound \cup PayloadFieldTimeout =>
         ~InTrace("fill") /\ ~InTrace("click:Insert")
    /\ thrown \in KindButtonNotFound => ~InTrace("click:" \o KindOf(op))
    /\ thrown = ConfirmNotFound => ~InTrace("click:Insert") /\ ~InTrace("dialog:closed")
    /\ thrown = ClosureTimeout => ~InTrace("dialog:closed")
    /\ InTrace("settle2000") => InTrace("dialog:closed")
    /\ \A i, j \in 1..Len(trace) : trace[i] = trace[j] => i = j

\* C24 witness: the dialog of an addUrlSources call did not close within the
\* deadline and the call has thrown.
C24_Witness ==
  /\ op = "addUrlSources" /\ pc = "done" /\ outcome = "threw"
  /\ thrown = ClosureTimeout
  /\ Last(trace) = "click:Insert"

\* Positions inside the embedded operation (dialog or query steps).
EmbeddedPcs ==
  { "evalBackdrop", "waitAddSource", "clickAddSource", "waitKindButtons", "clickKind",
    "waitPayload", "fill", "clickInsert", "waitClosed", "registerSettle",
    "typeQuestion", "submit", "waitThinking", "findAnswer", "poll" }

\* C25: in a call on a notebook the embedded operation is running, or has
\* left a page step, only after navigation, the visible question input and
\* the settle delay, in that order; when the question input does not appear
\* in time the call throws the timeout with the navigation as its only step.
C25_EmbeddedOperationAfterReadiness ==
  op \in {"addTextSource", "addUrlSources", "queryNotebook"} =>
    /\ IsPrefix(trace, Navigation) \/ IsPrefix(Navigation, trace)
    /\ pc \in EmbeddedPcs => IsPrefix(Navigation, trace)
    /\ thrown = QueryBoxTimeout =>
         /\ trace = <<"goto">>
         /\ pc \in {"close", "rm", "done"}
         /\ retval = "none"
         /\ pc = "done" => outcome = "threw"

\* C25 witness: the question input of the notebook did not appear and the
\* addTextSource call has thrown.
C25_Witness ==
  /\ op = "addTextSource" /\ pc = "done" /\ outcome = "threw"
  /\ thrown = QueryBoxTimeout /\ trace = <<"goto">>

\* C28: when queryNotebook hits the overall deadline it throws the response
\* timeout and has no return value, the reads not ending in a stable run; a
\* value it returns is the text of a stable run.
C28_ResponseTimeoutReturnsNoAnswer ==
  op = "queryNotebook" =>
    /\ thrown = ResponseTimeout =>
         /\ retval = "none"
         /\ ~EndsInStableRun(polls)
         /\ pc = "done" => outcome = "threw"
    /\ retval # "none" => (EndsInStableRun(polls) /\ retval = Last(polls))

\* C28 witness: the deadline passed after five reads of which only the last
\* two agreed.
C28_Witness ==
  /\ op = "queryNotebook" /\ pc = "done" /\ outcome = "threw"
  /\ thrown = ResponseTimeout
  /\ Len(polls) = 5 /\ polls[5] # "" /\ polls[4] = polls[5] /\ polls[3] # polls[4]

\* C26 (as stated): a URL list a tool handler hands to addUrlSources holds
\* no URL of the search engine's own pages.
C26_NoSearchPagesHandedOver ==
  (tool # "none" /\ op = "addUrlSources") =>
    \A i \in 1..Len(urls.list) : ~includes(urls.list[i], "duckduckgo.com")

\* Positions of a call before its context is launched.
AcquiringPcs == {"idle", "getPatchright", "launchBase", "mkdir", "cp", "launchClone"}

Requested ==
  IF op = "addTextSource"
  THEN [kind |-> "Copied text", text |-> "# " \o label \o "\n\n" \o content]
  ELSE [kind |-> "Websites", text |-> join(urls.list, "\n")]

\* C29: no step takes a source out of the notebook again, and every click on
\* Insert adds the requested source as one more entry, also when the
\* notebook already holds the same source.
C29_AdditionIsNotIdempotent ==
  [][ /\ IsPrefix(sources, sources')
      /\ (pc = "clickInsert" /\ pc' = "waitClosed") => sources' = Append(sources, Requested)
    ]_vars

\* C29 witness: the same source was added by two calls and is in the
\* notebook twice.
C29_Witness ==
  /\ Len(sources) = 2 /\ sources[1] = sources[2]
  /\ additions = 2

\* Every awaited step of a call that has started is eventually taken: the
\* promise it waits for settles.
SpecLive == Spec /\ WF_vars(Next)

\* The call has given back what it acquired: close() was called on the
\* context it launched and the clone directory it created is gone.
Released ==
  /\ held = 0
  /\ tempDir # NoDir => tempDir \notin instanceDirs

\* Every call that has started ends.
EveryCallEnds == (pc = "getPatchright") ~> (pc = "done")

\* C30 (as stated): a call that has ended has returned or thrown, holds no
\* context any more and has removed the clone directory it created.
C30_EndedCallsAreReleased ==
  pc = "done" => (outcome \in {"returned", "threw"} /\ Released)

\* C36 (as stated): when the failure result says the query failed after N
\* attempts, callNotebookLM was called N times.
C36_StatedAttemptsWereMade ==
  response.kind = "failure" =>
    \A n \in 1..MAX_RETRIES :
      includes(response.text, "Failed after " \o ToString(n) \o " attempts") => Len(calls) = n


----------------------------------------------------------------------------
(* The subprocess client                                                   *)

\* The awaited callNotebookLM call of the current attempt has just ended.
CallJustEnded == rpc = "idle" /\ attempt > 0 /\ Len(calls) = attempt

\* The text is a JSON object whose `success` is false and whose `error` is a
\* string.
ReportsFailure(text) ==
  /\ JSONparse(trim(text)).valid
  /\ JSONparse(trim(text)).success = "false"
  /\ JSONparse(trim(text)).errorType = "string"

\* C32: when the subprocess answers tools/call with text that is a JSON
\* object with success false and a string error, callNotebookLM throws an
\* Error carrying that string instead of returning the text: the attempt is
\* recorded as failed with that message, no answer is returned from it, and
\* the loop retries it exactly when the message is an auth/session error and
\* attempts are left.
C32_ToolFailureIsThrown ==
  ( /\ CallJustEnded
    /\ Len(received) = 2
    /\ received[2].id = 2 /\ received[2].error = ""
    /\ ReportsFailure(textOf(received[2])) )
  => LET e == JSONparse(trim(textOf(received[2]))).error
     IN  /\ calls[Len(calls)] = [origin |-> "tool", message |-> e]
         /\ lastErr = e
         /\ response.kind # "answer"
         /\ IF isAuthError(e) /\ attempt < MAX_RETRIES
            THEN hq = "sleep" /\ response.kind = "none"
            ELSE hq = "done" /\ response.kind = "failure" /\ includes(response.text, e)

\* The second attempt is being retried after the subprocess reported the
\* authentication failure twice.
C32_Witness ==
  /\ CallJustEnded
  /\ attempt = 2
  /\ received = <<InitializeReply, ToolReply(<<TextContent(AuthFailureJson)>>)>>
  /\ calls[1].message = "Failed to authenticate session"
  /\ hq = "sleep"

\* C37 (as stated): the value callNotebookLM returns is taken from the reply
\* to tools/call (id 2), never from another message that arrived first.
C37_ResultComesFromToolsCallReply ==
  CallJustEnded /\ calls[Len(calls)].origin = "ok"
    => Len(received) = 2 /\ received[2].id = 2


----------------------------------------------------------------------------
(* The search service                                                      *)

\* C33 (as stated): searchTopic never throws, so searchTopics never rejects
\* and, once it has returned, holds one entry per topic in topic order.
C33_SearchNeverThrows ==
  /\ search # "threw"
  /\ search = "returned" =>
       /\ Len(all) = Len(topics)
       /\ \A i \in 1..Len(topics) : all[i].topic = topics[i]


----------------------------------------------------------------------------
(* Errors and cleanup of a call                                            *)

\* The step in which fs.rm(tempDir) rejects: the finally block is left with
\* the clone still on disk.
RmRejects == pc = "rm" /\ pc' = "done" /\ tempDir \in instanceDirs'

\* C31 (as stated): apart from the partial profile clone and the missing
\* thinking indicator, an error raised during a call reaches the caller; in
\* particular a call in which the removal of the clone fails ends as thrown.
C31_ErrorsReachTheCaller == [][RmRejects => outcome' = "threw"]_vars

\* C34: a clone directory leaves the disk only in a step of the call that
\* created it, and only when the context opened on it has been closed.
C34_WorkspaceRemovedAfterClose ==
  [][\A d \in instanceDirs \ instanceDirs' :
       d = tempDir /\ pc = "rm" /\ context = "closed" /\ held = 0]_vars

\* The call ran on the clone, closed its context and removed the clone.
C34_Witness ==
  /\ pc = "done"
  /\ tempDir # NoDir /\ userDataDir = tempDir
  /\ context = "closed" /\ closeCalls = 1
  /\ tempDir \notin instanceDirs


----------------------------------------------------------------------------
(* Overlapping acquisitions                                                *)

\* C35 (as stated): two acquisitions that both clone never use the same
\* clone directory, and a context that is open on a clone finds it on disk.
C35_ClonesAreDistinct ==
  /\ \A a, b \in Acquirers :
       a # b /\ acqDir[a] # NoDir /\ acqDir[b] # NoDir => acqDir[a] # acqDir[b]
  /\ \A a \in Acquirers : acqPc[a] = "open" => acqDir[a] \in instanceDirs


----------------------------------------------------------------------------
(* Batches of additions                                                    *)

\* C38: in handleSync and handleResearch the handler goes on after an
\* addition whatever its outcome: the additions planned after it are all
\* still ahead, in order, and the handler returns when none is left.
C38_BatchContinuesAfterFailure ==
  [][(tool \in {"handleSync", "handleResearch"} /\ pc = "done" /\ pc' = "idle")
       => /\ plan' = Tail(plan)
          /\ tool' = IF Tail(plan) = <<>> THEN "none" ELSE tool]_vars

\* handleSync's first addition threw before its Insert click and the second
\* addition, of README.md, was made and returned.
C38_Witness ==
  /\ tool = "handleSync" /\ additions = 2
  /\ op = "addTextSource" /\ label = "README.md"
  /\ pc = "done" /\ outcome = "returned"
  /\ Len(sources) = 1


----------------------------------------------------------------------------
(* handleInit and the project configuration                                *)

CreationAhead == tool = "handleInit" /\ plan # <<>> /\ Head(plan).op = "createNotebook"

====
